---- MODULE Spec2Model ----
(***************************************************************************)
(* Persistent send scheduler of the cold-outreach backend                  *)
(* (backend/modules/scheduler.py), the two HTTP handlers that drive it     *)
(* (backend/routes/actions.py) and the lead store it writes                *)
(* (backend/modules/excel_handler.py).                                     *)
(*                                                                         *)
(* Two threads share the state: the request thread (upload, schedule,      *)
(* cancel) and the APScheduler worker that runs _execute_email_send.  The  *)
(* worker's run is split where another thread can interleave or the        *)
(* process can die: removal of the persisted entry, lookup + send, and the *)
(* write-back to the lead store.                                           *)
(***************************************************************************)
EXTENDS Integers, Sequences, FiniteSets, TLC

VARIABLES
    now,            \* wall clock (datetime.now()), in abstract ticks
    running,        \* BackgroundScheduler.running
    timers,         \* jobs held by the BackgroundScheduler (pending or live)
    jobs_metadata,  \* EmailScheduler.jobs_metadata, a dict in insertion order
    disk,           \* content of SCHEDULER_PERSISTENCE_FILE
    executing,      \* runs of _execute_email_send in the worker pool
    handler,        \* excel_handler._current_handler: 0 = None, else the n-th loaded
    leads,          \* ExcelHandler.leads of the current handler, by lead id
    dispatched,     \* history: calls of gmail_sender.send_email per job
    jobCount,       \* history: schedule_email calls so far (names the jobs)
    missed,         \* history: jobs start() found with their run time passed
    crashes,        \* history: process restarts so far
    ioFailures,     \* history: failed writes of the persistence file so far
    _daily_send_count,  \* gmail_sender._daily_send_count
    _last_send_date,    \* gmail_sender._last_send_date
    today,          \* date.today()
    calls,          \* runs of _send_email_sync in the sender's worker pool
    batch,          \* the run of send_emails_batch, if any
    vbatch,         \* the run of verify_emails_batch, if any
    credentials,    \* GMAIL_ADDRESS and GMAIL_APP_PASSWORD are configured
    transmitted,    \* history: messages handed to the relay, per date
    connections,    \* history: connections opened to the relay
    probe,          \* a call of SmartEmailVerifier.verify: its inputs, then its outcome
    vrun,           \* the background task of POST /api/verify (run_verification)
    response,       \* the answer of the last PUT /api/leads/{lead_id}
    writable,       \* the file of the lead store can be written
    unsaved,        \* the last handler.save() of the lead store failed
    writers,        \* calls of _save_jobs_metadata between open() and close()
    immediate,      \* requests of POST /api/leads/{lead_id}/send past their send
    _operation_progress  \* _operation_progress["verify"]["running"]

\* The state of the scheduler, of the lead store and of the persistence file.
schedVars == <<now, running, timers, jobs_metadata, disk, executing, handler, leads,
               dispatched, jobCount, missed, crashes, ioFailures>>

\* The daily send counter and the date it applies to.
counterVars == <<_daily_send_count, _last_send_date>>

\* The callers of the dispatch engine and of the verifier, and their history.
senderVars == <<today, calls, batch, vbatch, credentials, transmitted, connections>>

\* The verification engine, the bulk verification run and the lead routes.
verifierVars == <<probe, vrun, response>>

\* The file of the lead store, the writers of the persistence file, and the
\* requests in flight.
requestVars == <<writable, unsaved, writers, immediate, _operation_progress>>

vars == <<schedVars, counterVars, senderVars, verifierVars, requestVars>>

----------------------------------------------------------------------------
(* Bounds of the model *)

NumLeads == 2
MaxTime == 2
MaxJobs == 2
MaxCrashes == 1
MaxUploads == 1
MaxIoFailures == 1
MaxDays == 2
MaxCalls == 3
MaxBatch == 4

\* DAILY_EMAIL_CAP of the configuration, small enough to be reached.
DAILY_EMAIL_CAP == 2

\* Calls of _save_jobs_metadata under way at a time.
MaxWriters == 2

\* Requests of POST /leads/{lead_id}/send under way at a time.
MaxSends == 1

\* Background tasks of POST /verify.
MaxRuns == 2

Leads == 1..NumLeads
Times == 0..MaxTime
Subjects == {"s1", "s2"}
Bodies == {"b1", "b2"}
Address == "a@b.com"

\* Jobs are named by a history number: 1..MaxJobs for schedule_email calls,
\* FileJob(k) for the entry under key k of a persistence file found at boot.
FileJob(k) == MaxJobs + k
Jobs == 1..(MaxJobs + 3)

----------------------------------------------------------------------------
(* Values *)

None == "None"
NoTime == -1

NOT_SENT == "not_sent"
INITIAL_SENT == "initial_sent"
GHOST_1_SENT == "ghost_1_sent"
GHOST_2_SENT == "ghost_2_sent"
REPLIED == "replied"
SequenceStep == {NOT_SENT, INITIAL_SENT, GHOST_1_SENT, GHOST_2_SENT, REPLIED}

VALID == "valid"
INVALID == "invalid"
UNKNOWN == "unknown"
CATCH_ALL == "catch-all"
PENDING == "pending"

\* str(lead_id) and int(lead_id_str)
DecimalDigits == <<"1", "2", "3", "4", "5", "6", "7", "8", "9">>
str(n) == DecimalDigits[n]
IsInt(k) == \E n \in DOMAIN DecimalDigits : DecimalDigits[n] = k
int(k) == CHOOSE n \in DOMAIN DecimalDigits : DecimalDigits[n] = k

\* datetime.isoformat() / datetime.fromisoformat(): the persisted run_date is
\* a string; a string that is no ISO date does not parse.
isoformat(t) == <<"iso", t>>
BadDate == <<"not-a-date">>
Parses(s) == Len(s) = 2 /\ s[1] = "iso"
fromisoformat(s) == s[2]

\* A key of a JSON object that is absent (KeyError on access).
Absent == "<absent>"
AbsentDate == <<>>

----------------------------------------------------------------------------
(* The jobs_metadata dict: a sequence of entries in insertion order *)

Entry(k, s, b, d, j) == [key |-> k, subject |-> s, body |-> b, run_date |-> d, jid |-> j]

DictHas(d, k) == \E i \in 1..Len(d) : d[i].key = k
DictGet(d, k) == d[CHOOSE i \in 1..Len(d) : d[i].key = k]
DictDel(d, k) == SelectSeq(d, LAMBDA e : e.key # k)
DictSet(d, e) ==
    IF DictHas(d, e.key)
    THEN [i \in 1..Len(d) |-> IF d[i].key = e.key THEN e ELSE d[i]]
    ELSE Append(d, e)

File(es) == [valid |-> TRUE, entries |-> es]
Garbage == [valid |-> FALSE, entries |-> <<>>]

_load_jobs_metadata == IF disk.valid THEN disk.entries ELSE <<>>

\* Variant: the file is never written.
_save_nothing(d) == UNCHANGED <<disk, ioFailures>>

\* _save_jobs_metadata for the dict d: written; or, the exception swallowed,
\* open() failed (file untouched) or the write failed after open() truncated
\* the file.
_save_jobs_metadata(d) ==
    \/ /\ disk' = File(d)
       /\ UNCHANGED ioFailures
    \/ /\ ioFailures < MaxIoFailures
       /\ disk' \in {disk, Garbage}
       /\ ioFailures' = ioFailures + 1

----------------------------------------------------------------------------
(* The timer registry *)

Timer(l, s, b, t, j) ==
    [id |-> str(l), lead_id |-> l, subject |-> s, body |-> b, run_date |-> t, jid |-> j]

\* Variant: the job is added beside a job of the same id.
add_job_beside(tm, t) == tm \cup {t}

\* scheduler.add_job(..., id=job_id, replace_existing=True)
add_job(tm, t) == {x \in tm : x.id # t.id} \cup {t}

\* Variant: the job stays in the registry.
remove_job_never(tm, id) == tm

\* scheduler.remove_job(job_id), JobLookupError swallowed
remove_job(tm, id) == {x \in tm : x.id # id}

----------------------------------------------------------------------------
(* The lead store *)

Lead(e, st, su, dr, sent, sch) ==
    [present |-> TRUE, email |-> e, sequence_step |-> st, email_subject |-> su,
     email_draft |-> dr, email_sent_at |-> sent, scheduled_at |-> sch,
     email_verified |-> PENDING, verification_checked_at |-> NoTime]

\* No row with this id in the loaded file: get_lead / update_lead find nothing.
NoLead ==
    [present |-> FALSE, email |-> "", sequence_step |-> NOT_SENT, email_subject |-> None,
     email_draft |-> None, email_sent_at |-> NoTime, scheduled_at |-> NoTime,
     email_verified |-> PENDING, verification_checked_at |-> NoTime]

\* _row_to_lead: scheduled_at is no column of the file, so a loaded lead has none.
Rows ==
    {Lead(Address, st, None, None, NoTime, NoTime) : st \in SequenceStep}
        \cup {Lead("", NOT_SENT, None, None, NoTime, NoTime), NoLead}

\* The uploaded files of the model: every row alike.
DataSets == {[l \in Leads |-> r] : r \in Rows}

\* Variant: the supplied fields are written into a fresh lead of the same
\* address.
replace_lead(ls, l, updates) ==
    IF l \in DOMAIN ls /\ ls[l].present
    THEN [ls EXCEPT ![l] = [f \in DOMAIN ls[l] |->
                               IF f \in DOMAIN updates THEN updates[f]
                               ELSE Lead(ls[l].email, NOT_SENT, None, None, NoTime, NoTime)[f]]]
    ELSE ls

\* ExcelHandler.update_lead: merge the supplied fields into the lead with that
\* id; no such lead: nothing changes.
update_lead(ls, l, updates) ==
    IF l \in DOMAIN ls /\ ls[l].present
    THEN [ls EXCEPT ![l] = [f \in DOMAIN ls[l] |->
                               IF f \in DOMAIN updates THEN updates[f] ELSE ls[l][f]]]
    ELSE ls

\* handler.save(): the file of the lead store is written from the leads in
\* memory, or the write raises and the file stays behind.
save == unsaved' = ~writable

\* Variant: every successful send writes the first step.
NewStepFirst(step) == INITIAL_SENT

\* The step a successful scheduled send writes.
NewStep(step) ==
    IF step = INITIAL_SENT THEN GHOST_1_SENT
    ELSE IF step = GHOST_1_SENT THEN GHOST_2_SENT
    ELSE INITIAL_SENT

----------------------------------------------------------------------------
(* Startup recovery *)

\* Variant: recovery takes every run date for a coming one.
AlwaysInFuture(run_date) == TRUE

\* run_date > datetime.now(run_date.tzinfo)
InFuture(run_date) == run_date > now

\* _restore_jobs from entry i on, tm being the registry so far.  int(key) and
\* job_data['run_date'] stand outside the try: their exceptions end the loop
\* (and leave start()).  Inside the try an exception skips the entry.
RECURSIVE RestoreFrom(_, _, _)
RestoreFrom(d, i, tm) ==
    IF i > Len(d) THEN tm
    ELSE LET e == d[i] IN
         IF ~IsInt(e.key) THEN tm
         ELSE IF e.run_date = AbsentDate THEN tm
         ELSE IF ~Parses(e.run_date) THEN RestoreFrom(d, i + 1, tm)
         ELSE IF InFuture(fromisoformat(e.run_date))
              THEN IF e.subject = Absent \/ e.body = Absent
                   THEN RestoreFrom(d, i + 1, tm)
                   ELSE RestoreFrom(d, i + 1,
                            add_job(tm, Timer(int(e.key), e.subject, e.body,
                                              fromisoformat(e.run_date), e.jid)))
              ELSE RestoreFrom(d, i + 1, tm)

_restore_jobs(d, tm) == RestoreFrom(d, 1, tm)


\* The entries of d that are jobs: an integer key, a run date that parses, a
\* subject and a body.
WellFormed(e) ==
    /\ IsInt(e.key)
    /\ Parses(e.run_date)
    /\ e.subject # Absent
    /\ e.body # Absent

\* EmailScheduler.get_scheduled_job: the entry of that lead, or None.
NoEntry == Entry(None, None, None, AbsentDate, 0)
get_scheduled_job(d, l) == IF DictHas(d, str(l)) THEN DictGet(d, str(l)) ELSE NoEntry

----------------------------------------------------------------------------
(* Request handlers *)

\* POST /api/upload: a new ExcelHandler over the uploaded file replaces the
\* current one (load_excel -> set_handler).
upload_excel(ds) ==
    /\ handler < MaxUploads
    /\ handler' = handler + 1
    /\ leads' = ds
    /\ UNCHANGED <<now, running, timers, jobs_metadata, disk, executing,
                   dispatched, jobCount, missed, crashes, ioFailures>>
    /\ UNCHANGED <<counterVars, senderVars>>
    /\ UNCHANGED verifierVars
    /\ unsaved' = FALSE
    /\ UNCHANGED <<writable, writers, immediate, _operation_progress>>

\* EmailScheduler.schedule_email: register the timer, then persist the entry.
schedule_email(l, subject, body, run_date) ==
    LET e == Entry(str(l), subject, body, isoformat(run_date), jobCount + 1) IN
    /\ timers' = add_job(timers, Timer(l, subject, body, run_date, jobCount + 1))
    /\ jobs_metadata' = DictSet(jobs_metadata, e)
    /\ _save_jobs_metadata(DictSet(jobs_metadata, e))
    /\ jobCount' = jobCount + 1

\* POST /api/leads/{lead_id}/schedule with the request's subject, body and
\* send_at (None: the lead's draft; a missing send_at is the time
\* get_next_send_time picks).  The 404 and 400 answers change nothing.
schedule_email_endpoint(l, req_subject, req_body, send_at) ==
    LET subject == IF req_subject # None THEN req_subject ELSE leads[l].email_subject
        body == IF req_body # None THEN req_body ELSE leads[l].email_draft
    IN  /\ handler # 0
        /\ leads[l].present
        /\ subject # None /\ body # None
        /\ jobCount < MaxJobs
        /\ schedule_email(l, subject, body, send_at)
        /\ leads' = update_lead(leads, l, [scheduled_at |-> send_at,
                                           email_subject |-> subject,
                                           email_draft |-> body])
        /\ UNCHANGED <<now, running, executing, handler, dispatched, missed, crashes>>
        /\ UNCHANGED <<counterVars, senderVars>>
        /\ UNCHANGED verifierVars
        /\ save
        /\ UNCHANGED <<writable, writers, immediate, _operation_progress>>

\* EmailScheduler.cancel_email
cancel_email(l) ==
    /\ timers' = remove_job(timers, str(l))
    /\ IF DictHas(jobs_metadata, str(l))
       THEN /\ jobs_metadata' = DictDel(jobs_metadata, str(l))
            /\ _save_jobs_metadata(DictDel(jobs_metadata, str(l)))
       ELSE UNCHANGED <<jobs_metadata, disk, ioFailures>>

\* POST /api/leads/{lead_id}/cancel-schedule
cancel_schedule_endpoint(l) ==
    /\ handler # 0
    /\ cancel_email(l)
    /\ leads' = update_lead(leads, l, [scheduled_at |-> NoTime])
    /\ UNCHANGED <<now, running, executing, handler, dispatched, jobCount, missed, crashes>>
    /\ UNCHANGED <<counterVars, senderVars>>
    /\ UNCHANGED verifierVars
    /\ save
    /\ UNCHANGED <<writable, writers, immediate, _operation_progress>>

----------------------------------------------------------------------------
(* The dispatch engine: the daily send counter (gmail_sender.py) *)

\* _last_send_date before the first touch.
NoDate == 0

\* Variant: the counter is reset at every touch.
reset_always(count, last, day) == [count |-> 0, date |-> day]

\* _reset_daily_count_if_needed, given the date that date.today() returned:
\* the counter and its date afterwards.
_reset_daily_count_if_needed(count, last, day) ==
    IF last # day THEN [count |-> 0, date |-> day] ELSE [count |-> count, date |-> last]

\* get_daily_send_count: touch the counter, return it.
get_daily_send_count ==
    _reset_daily_count_if_needed(_daily_send_count, _last_send_date, today).count

\* max(0, DAILY_EMAIL_CAP - get_daily_send_count())
get_remaining_daily_quota ==
    IF DAILY_EMAIL_CAP - get_daily_send_count > 0
    THEN DAILY_EMAIL_CAP - get_daily_send_count ELSE 0

\* The counter reached the cap: _daily_send_count >= DAILY_EMAIL_CAP.
\* Variant: the send is refused only above the cap.
CapExceeded(count) == count > DAILY_EMAIL_CAP

CapReached(count) == count >= DAILY_EMAIL_CAP

----------------------------------------------------------------------------
(* The scheduler *)

\* History: the jobs of d that hold no timer and whose run time is not in the
\* future (missed while the process was down).
Past(d, tm) ==
    {d[i].jid : i \in {k \in 1..Len(d) : /\ IsInt(d[k].key)
                                         /\ Parses(d[k].run_date)
                                         /\ fromisoformat(d[k].run_date) <= now
                                         /\ \A t \in tm : t.jid # d[k].jid}}

\* Variant: recovery drops the entries it does not restore.
start_with_cleanup ==
    /\ ~running
    /\ running' = TRUE
    /\ timers' = _restore_jobs(jobs_metadata, timers)
    /\ jobs_metadata' =
         SelectSeq(jobs_metadata,
                   LAMBDA e : \E t \in _restore_jobs(jobs_metadata, timers) : t.jid = e.jid)
    /\ missed' = missed \cup Past(jobs_metadata, timers)
    /\ UNCHANGED <<now, disk, executing, handler, leads,
                   dispatched, jobCount, crashes, ioFailures>>
    /\ UNCHANGED <<counterVars, senderVars>>
    /\ UNCHANGED <<verifierVars, requestVars>>

\* EmailScheduler.start: start the BackgroundScheduler, then restore.
start ==
    /\ ~running
    /\ running' = TRUE
    /\ timers' = _restore_jobs(jobs_metadata, timers)
    /\ missed' = missed \cup Past(jobs_metadata, timers)
    /\ UNCHANGED <<now, jobs_metadata, disk, executing, handler, leads,
                   dispatched, jobCount, crashes, ioFailures>>
    /\ UNCHANGED <<counterVars, senderVars>>
    /\ UNCHANGED <<verifierVars, requestVars>>

Run(t, pc, step, h) ==
    [id |-> t.id, lead_id |-> t.lead_id, subject |-> t.subject, body |-> t.body,
     jid |-> t.jid, pc |-> pc, step |-> step, handler |-> h]

\* An instance of the job id is running (max_instances is 1).
Busy(id) == \E x \in executing : x.id = id

\* The running BackgroundScheduler hands a due one-shot job to its worker pool
\* and drops it from the registry.
Fire(t) ==
    /\ running
    /\ t \in timers
    /\ t.run_date <= now
    /\ ~Busy(t.id)
    /\ timers' = timers \ {t}
    /\ executing' = executing \cup {Run(t, "remove", NOT_SENT, 0)}
    /\ UNCHANGED <<now, running, jobs_metadata, disk, handler, leads,
                   dispatched, jobCount, missed, crashes, ioFailures>>
    /\ UNCHANGED <<counterVars, senderVars>>
    /\ UNCHANGED <<verifierVars, requestVars>>

\* A due job is dropped without being run when it is found later than
\* misfire_grace_time after its run time, or while an instance of its id runs.
Misfire(t) ==
    /\ running
    /\ t \in timers
    /\ \/ t.run_date < now
       \/ t.run_date <= now /\ Busy(t.id)
    /\ timers' = timers \ {t}
    /\ UNCHANGED <<now, running, jobs_metadata, disk, executing, handler, leads,
                   dispatched, jobCount, missed, crashes, ioFailures>>
    /\ UNCHANGED <<counterVars, senderVars>>
    /\ UNCHANGED <<verifierVars, requestVars>>

\* Variant: the persisted entry is left in place when the send begins.
ExecRemoveNothing(x) ==
    /\ x \in executing
    /\ x.pc = "remove"
    /\ executing' = (executing \ {x}) \cup {[x EXCEPT !.pc = "send"]}
    /\ UNCHANGED <<now, running, timers, jobs_metadata, disk, handler, leads,
                   dispatched, jobCount, missed, crashes, ioFailures>>
    /\ UNCHANGED <<counterVars, senderVars>>
    /\ UNCHANGED <<verifierVars, requestVars>>

\* _execute_email_send, first part: drop the persisted entry of this lead id.
ExecRemove(x) ==
    /\ x \in executing
    /\ x.pc = "remove"
    /\ IF DictHas(jobs_metadata, str(x.lead_id))
       THEN /\ jobs_metadata' = DictDel(jobs_metadata, str(x.lead_id))
            /\ _save_jobs_metadata(DictDel(jobs_metadata, str(x.lead_id)))
       ELSE UNCHANGED <<jobs_metadata, disk, ioFailures>>
    /\ executing' = (executing \ {x}) \cup {[x EXCEPT !.pc = "send"]}
    /\ UNCHANGED <<now, running, timers, handler, leads, dispatched, jobCount,
                   missed, crashes>>
    /\ UNCHANGED <<counterVars, senderVars>>
    /\ UNCHANGED <<verifierVars, requestVars>>

\* Variant: a lead without an address is sent to as well.
SendableWithoutAddress(l) == handler # 0 /\ l \in Leads /\ leads[l].present

\* get_handler() and handler.get_lead(lead_id) find a lead with an address.
Sendable(l) == handler # 0 /\ l \in Leads /\ leads[l].present /\ leads[l].email # ""

\* Variant: a failed send puts the job back into the registry.
ExecSendRetry(x, success) ==
    /\ x \in executing
    /\ x.pc = "send"
    /\ Sendable(x.lead_id)
    /\ ~success
    /\ dispatched' = [dispatched EXCEPT ![x.jid] = @ + 1]
    /\ executing' = executing \ {x}
    /\ timers' = add_job(timers, Timer(x.lead_id, x.subject, x.body, now, x.jid))
    /\ UNCHANGED <<now, running, jobs_metadata, disk, handler, leads,
                   jobCount, missed, crashes, ioFailures>>
    /\ UNCHANGED <<counterVars, senderVars>>
    /\ UNCHANGED <<verifierVars, requestVars>>

\* _execute_email_send, second part: look the lead up and call send_email.
\* No handler, no such lead or no address: the run ends without a send.
\* send_email runs _send_email_sync in the sender's pool, taken here as one
\* step: credentials, counter touched, cap, transport, counter incremented.
ExecSend(x, success) ==
    /\ x \in executing
    /\ x.pc = "send"
    /\ IF ~Sendable(x.lead_id)
       THEN /\ success = FALSE
            /\ executing' = executing \ {x}
            /\ UNCHANGED <<dispatched, counterVars, transmitted, connections>>
       ELSE LET c == _reset_daily_count_if_needed(_daily_send_count, _last_send_date, today)
                tried == credentials /\ ~CapReached(c.count)
            IN  /\ success => tried
                /\ dispatched' = [dispatched EXCEPT ![x.jid] = @ + 1]
                /\ _daily_send_count' =
                     IF ~credentials THEN _daily_send_count
                     ELSE IF success THEN c.count + 1 ELSE c.count
                /\ _last_send_date' = IF credentials THEN c.date ELSE _last_send_date
                /\ connections' = IF tried THEN connections + 1 ELSE connections
                /\ transmitted' = IF success THEN [transmitted EXCEPT ![today] = @ + 1]
                                  ELSE transmitted
                /\ executing' =
                     IF success
                     THEN (executing \ {x}) \cup
                            {[x EXCEPT !.pc = "update",
                                       !.step = leads[x.lead_id].sequence_step,
                                       !.handler = handler]}
                     ELSE executing \ {x}
    /\ UNCHANGED <<now, running, timers, jobs_metadata, disk, handler, leads,
                   jobCount, missed, crashes, ioFailures>>
    /\ UNCHANGED <<today, calls, batch, vbatch, credentials>>
    /\ UNCHANGED <<verifierVars, requestVars>>

\* Variant: the lead is written only when the file could be saved.
ExecUpdateIfSaved(x) ==
    /\ x \in executing
    /\ x.pc = "update"
    /\ IF x.handler = handler THEN save ELSE UNCHANGED unsaved
    /\ leads' = IF x.handler = handler /\ ~unsaved'
                THEN update_lead(leads, x.lead_id,
                                 [email_sent_at |-> now,
                                  sequence_step |-> NewStep(x.step),
                                  email_subject |-> x.subject,
                                  email_draft |-> x.body,
                                  scheduled_at |-> NoTime])
                ELSE leads
    /\ executing' = executing \ {x}
    /\ UNCHANGED <<now, running, timers, jobs_metadata, disk, handler,
                   dispatched, jobCount, missed, crashes, ioFailures>>
    /\ UNCHANGED <<counterVars, senderVars>>
    /\ UNCHANGED verifierVars
    /\ UNCHANGED <<writable, writers, immediate, _operation_progress>>

\* _execute_email_send, last part, after a successful send: write the lead
\* through the handler looked up before the send (which an upload may have
\* replaced since).
ExecUpdate(x) ==
    /\ x \in executing
    /\ x.pc = "update"
    /\ leads' = IF x.handler = handler
                THEN update_lead(leads, x.lead_id,
                                 [email_sent_at |-> now,
                                  sequence_step |-> NewStep(x.step),
                                  email_subject |-> x.subject,
                                  email_draft |-> x.body,
                                  scheduled_at |-> NoTime])
                ELSE leads
    /\ executing' = executing \ {x}
    /\ UNCHANGED <<now, running, timers, jobs_metadata, disk, handler,
                   dispatched, jobCount, missed, crashes, ioFailures>>
    /\ UNCHANGED <<counterVars, senderVars>>
    /\ UNCHANGED verifierVars
    /\ IF x.handler = handler THEN save ELSE UNCHANGED unsaved
    /\ UNCHANGED <<writable, writers, immediate, _operation_progress>>

----------------------------------------------------------------------------
(* The immediate send: POST /api/leads/{lead_id}/send (actions.py) *)

\* A request under way: the lead object and the handler looked up at its
\* start, the message resolved, its position.
SendRequest(l, subject, body, step, h, pc) ==
    [lead_id |-> l, subject |-> subject, body |-> body, step |-> step,
     handler |-> h, pc |-> pc]

\* The step a successful immediate send writes.
new_step(step) ==
    IF step = INITIAL_SENT THEN GHOST_1_SENT
    ELSE IF step = GHOST_1_SENT THEN GHOST_2_SENT
    ELSE INITIAL_SENT

\* send_lead_email up to the await of send_email.  No handler or no such
\* lead: 404.  The quota check touches the counter; no quota left: 429.  No
\* subject or body, or no address: 400.
ImmediateBegin(l, req_subject, req_body) ==
    LET email_subject == IF req_subject # None THEN req_subject ELSE leads[l].email_subject
        email_body == IF req_body # None THEN req_body ELSE leads[l].email_draft
        c == _reset_daily_count_if_needed(_daily_send_count, _last_send_date, today)
    IN  /\ handler # 0
        /\ leads[l].present
        /\ Cardinality(immediate) < MaxSends
        /\ connections < MaxCalls
        /\ _daily_send_count' = c.count
        /\ _last_send_date' = c.date
        /\ immediate' =
             IF /\ get_remaining_daily_quota > 0
                /\ email_subject # None /\ email_body # None
                /\ leads[l].email # ""
             THEN immediate \cup {SendRequest(l, email_subject, email_body,
                                              leads[l].sequence_step, handler, "send")}
             ELSE immediate
        /\ UNCHANGED <<schedVars, senderVars, verifierVars>>
        /\ UNCHANGED <<writable, unsaved, writers, _operation_progress>>

\* await send_email(...): _send_email_sync in the sender's pool, taken as one
\* step as in ExecSend.  No success: 500, the lead is not written.
ImmediateSend(y, success) ==
    LET c == _reset_daily_count_if_needed(_daily_send_count, _last_send_date, today)
        tried == credentials /\ ~CapReached(c.count)
    IN  /\ y \in immediate
        /\ y.pc = "send"
        /\ success => tried
        /\ _daily_send_count' =
             IF ~credentials THEN _daily_send_count
             ELSE IF success THEN c.count + 1 ELSE c.count
        /\ _last_send_date' = IF credentials THEN c.date ELSE _last_send_date
        /\ connections' = IF tried THEN connections + 1 ELSE connections
        /\ transmitted' = IF success THEN [transmitted EXCEPT ![today] = @ + 1]
                          ELSE transmitted
        /\ immediate' = IF success
                        THEN (immediate \ {y}) \cup {[y EXCEPT !.pc = "update"]}
                        ELSE immediate \ {y}
        /\ UNCHANGED <<schedVars, verifierVars>>
        /\ UNCHANGED <<today, calls, batch, vbatch, credentials>>
        /\ UNCHANGED <<writable, unsaved, writers, _operation_progress>>

\* send_lead_email after a successful send: the step from the lead object
\* looked up before the send, written through the handler looked up then;
\* scheduled_at is left as it is.  The save is tried, its failure swallowed.
ImmediateUpdate(y) ==
    /\ y \in immediate
    /\ y.pc = "update"
    /\ leads' = IF y.handler = handler
                THEN update_lead(leads, y.lead_id,
                                 [email_sent_at |-> now,
                                  sequence_step |-> new_step(y.step),
                                  email_subject |-> y.subject,
                                  email_draft |-> y.body])
                ELSE leads
    /\ immediate' = immediate \ {y}
    /\ IF y.handler = handler THEN save ELSE UNCHANGED unsaved
    /\ UNCHANGED <<now, running, timers, jobs_metadata, disk, executing, handler,
                   dispatched, jobCount, missed, crashes, ioFailures>>
    /\ UNCHANGED <<counterVars, senderVars, verifierVars>>
    /\ UNCHANGED <<writable, writers, _operation_progress>>

----------------------------------------------------------------------------
(* The persistence file under two threads (scheduler.py): the methods of
   EmailScheduler step by step.  _save_jobs_metadata opens the file for
   writing, which empties it, json.dump fills the buffer of the file object
   from the dict as it is then, and leaving the with block writes the buffer
   at the start of the file. *)

\* A call of _save_jobs_metadata: its thread (0: the request thread, else
\* the job whose run it belongs to), its position, the buffered text.
Writer(owner, pc, buffer) == [owner |-> owner, pc |-> pc, buffer |-> buffer]

RequestThread == 0

\* The thread is not inside a call of _save_jobs_metadata, and another call
\* may begin.
Free(owner) ==
    /\ \A w \in writers : w.owner # owner
    /\ Cardinality(writers) < MaxWriters

\* schedule_email up to the call of _save_jobs_metadata: the timer is
\* registered and the entry set in the dict.
ScheduleStart(l, subject, body, run_date) ==
    LET e == Entry(str(l), subject, body, isoformat(run_date), jobCount + 1) IN
    /\ Free(RequestThread)
    /\ jobCount < MaxJobs
    /\ timers' = add_job(timers, Timer(l, subject, body, run_date, jobCount + 1))
    /\ jobs_metadata' = DictSet(jobs_metadata, e)
    /\ jobCount' = jobCount + 1
    /\ writers' = writers \cup {Writer(RequestThread, "open", <<>>)}
    /\ UNCHANGED <<now, running, disk, executing, handler, leads, dispatched,
                   missed, crashes, ioFailures>>
    /\ UNCHANGED <<counterVars, senderVars, verifierVars>>
    /\ UNCHANGED <<writable, unsaved, immediate, _operation_progress>>

\* cancel_email up to the call of _save_jobs_metadata, or to its end when
\* the dict has no entry of the lead.
CancelStart(l) ==
    /\ Free(RequestThread)
    /\ timers' = remove_job(timers, str(l))
    /\ IF DictHas(jobs_metadata, str(l))
       THEN /\ jobs_metadata' = DictDel(jobs_metadata, str(l))
            /\ writers' = writers \cup {Writer(RequestThread, "open", <<>>)}
       ELSE UNCHANGED <<jobs_metadata, writers>>
    /\ UNCHANGED <<now, running, disk, executing, handler, leads, dispatched,
                   jobCount, missed, crashes, ioFailures>>
    /\ UNCHANGED <<counterVars, senderVars, verifierVars>>
    /\ UNCHANGED <<writable, unsaved, immediate, _operation_progress>>

\* _execute_email_send up to the call of _save_jobs_metadata, or to the
\* lookup of the lead when the dict has no entry of the lead.
RemoveStart(x) ==
    /\ x \in executing
    /\ x.pc = "remove"
    /\ IF DictHas(jobs_metadata, str(x.lead_id))
       THEN /\ Free(x.jid)
            /\ jobs_metadata' = DictDel(jobs_metadata, str(x.lead_id))
            /\ writers' = writers \cup {Writer(x.jid, "open", <<>>)}
            /\ executing' = (executing \ {x}) \cup {[x EXCEPT !.pc = "save"]}
       ELSE /\ executing' = (executing \ {x}) \cup {[x EXCEPT !.pc = "send"]}
            /\ UNCHANGED <<jobs_metadata, writers>>
    /\ UNCHANGED <<now, running, timers, disk, handler, leads, dispatched, jobCount,
                   missed, crashes, ioFailures>>
    /\ UNCHANGED <<counterVars, senderVars, verifierVars>>
    /\ UNCHANGED <<writable, unsaved, immediate, _operation_progress>>

\* open(self.persistence_file, 'w'): the file is empty.
SaveOpen(w) ==
    /\ w \in writers
    /\ w.pc = "open"
    /\ disk' = Garbage
    /\ writers' = (writers \ {w}) \cup {[w EXCEPT !.pc = "dump"]}
    /\ UNCHANGED <<now, running, timers, jobs_metadata, executing, handler, leads,
                   dispatched, jobCount, missed, crashes, ioFailures>>
    /\ UNCHANGED <<counterVars, senderVars, verifierVars>>
    /\ UNCHANGED <<writable, unsaved, immediate, _operation_progress>>

\* json.dump(self.jobs_metadata, f, ...): the text of the dict as it is now
\* goes to the buffer of f.
SaveDump(w) ==
    /\ w \in writers
    /\ w.pc = "dump"
    /\ writers' = (writers \ {w}) \cup {[w EXCEPT !.pc = "close", !.buffer = jobs_metadata]}
    /\ UNCHANGED schedVars
    /\ UNCHANGED <<counterVars, senderVars, verifierVars>>
    /\ UNCHANGED <<writable, unsaved, immediate, _operation_progress>>

\* The file after the buffer was written at its start: the text of the
\* buffer, followed by what a longer text written meanwhile leaves behind
\* it, which json.load does not accept.
written(buffer) ==
    IF disk.valid /\ Len(disk.entries) > Len(buffer) THEN Garbage ELSE File(buffer)

\* The with block is left: the buffer is written and the file closed;
\* _save_jobs_metadata returns, and a run of _execute_email_send goes on.
SaveClose(w) ==
    /\ w \in writers
    /\ w.pc = "close"
    /\ disk' = written(w.buffer)
    /\ writers' = writers \ {w}
    /\ executing' = {IF x.pc = "save" /\ x.jid = w.owner THEN [x EXCEPT !.pc = "send"] ELSE x :
                       x \in executing}
    /\ UNCHANGED <<now, running, timers, jobs_metadata, handler, leads,
                   dispatched, jobCount, missed, crashes, ioFailures>>
    /\ UNCHANGED <<counterVars, senderVars, verifierVars>>
    /\ UNCHANGED <<writable, unsaved, immediate, _operation_progress>>

----------------------------------------------------------------------------
(* The dispatch engine: send calls in the worker pool (gmail_sender.py) *)

\* _executor = ThreadPoolExecutor(max_workers=2)
max_workers == 2

\* A call of send_email: queued in the pool, then run by a worker through
\* _send_email_sync.  day is the worker's local `today`; msg is the position
\* of the message in the batch (0: no batch).
Call(caller, msg) == [caller |-> caller, msg |-> msg, pc |-> "queued", day |-> NoDate,
                      result |-> None]

Working == {i \in 1..Len(calls) : calls[i].pc \notin {"queued", "done"}}

\* loop.run_in_executor(_executor, _send_email_sync, ...)
send_email(caller, msg) ==
    /\ Len(calls) < MaxCalls
    /\ calls' = Append(calls, Call(caller, msg))

Done(i, result) == calls' = [calls EXCEPT ![i].pc = "done", ![i].result = result]

\* A free worker takes the call: credentials, then today = date.today().
SendBegin(i) ==
    /\ i \in 1..Len(calls)
    /\ calls[i].pc = "queued"
    /\ Cardinality(Working) < max_workers
    /\ IF ~credentials
       THEN Done(i, "Gmail credentials not configured")
       ELSE calls' = [calls EXCEPT ![i].pc = "reset", ![i].day = today]
    /\ UNCHANGED <<schedVars, counterVars, today, batch, vbatch, credentials,
                   transmitted, connections>>
    /\ UNCHANGED <<verifierVars, requestVars>>

\* The rest of _reset_daily_count_if_needed, then the check of the daily limit.
SendCheck(i) ==
    LET c == _reset_daily_count_if_needed(_daily_send_count, _last_send_date, calls[i].day) IN
    /\ i \in 1..Len(calls)
    /\ calls[i].pc = "reset"
    /\ _daily_send_count' = c.count
    /\ _last_send_date' = c.date
    /\ IF CapReached(c.count)
       THEN Done(i, "Daily email cap reached (cap)")
       ELSE calls' = [calls EXCEPT ![i].pc = "smtp"]
    /\ UNCHANGED <<schedVars, today, batch, vbatch, credentials, transmitted, connections>>
    /\ UNCHANGED <<verifierVars, requestVars>>

\* _reset_daily_count_if_needed and the check of the daily limit statement
\* by statement, as the workers of the pool run them side by side.
\* if _last_send_date != today
SendCompare(i) ==
    /\ i \in 1..Len(calls)
    /\ calls[i].pc = "reset"
    /\ calls' = [calls EXCEPT ![i].pc = IF _last_send_date # calls[i].day
                                         THEN "zero" ELSE "cap"]
    /\ UNCHANGED <<schedVars, counterVars, today, batch, vbatch, credentials,
                   transmitted, connections>>
    /\ UNCHANGED <<verifierVars, requestVars>>

\* _daily_send_count = 0; _last_send_date = today
SendZero(i) ==
    /\ i \in 1..Len(calls)
    /\ calls[i].pc = "zero"
    /\ _daily_send_count' = 0
    /\ _last_send_date' = calls[i].day
    /\ calls' = [calls EXCEPT ![i].pc = "cap"]
    /\ UNCHANGED <<schedVars, today, batch, vbatch, credentials, transmitted, connections>>
    /\ UNCHANGED <<verifierVars, requestVars>>

\* if _daily_send_count >= DAILY_EMAIL_CAP: return False, ...
SendCap(i) ==
    /\ i \in 1..Len(calls)
    /\ calls[i].pc = "cap"
    /\ IF CapReached(_daily_send_count)
       THEN Done(i, "Daily email cap reached (cap)")
       ELSE calls' = [calls EXCEPT ![i].pc = "smtp"]
    /\ UNCHANGED <<schedVars, counterVars, today, batch, vbatch, credentials,
                   transmitted, connections>>
    /\ UNCHANGED <<verifierVars, requestVars>>

\* SMTP_SSL, login, sendmail: the message is accepted by the relay, or an
\* exception ends the call with a failure diagnostic.
SendTransport(i, ok) ==
    /\ i \in 1..Len(calls)
    /\ calls[i].pc = "smtp"
    /\ connections' = connections + 1
    /\ IF ok
       THEN /\ transmitted' = [transmitted EXCEPT ![today] = @ + 1]
            /\ calls' = [calls EXCEPT ![i].pc = "count"]
       ELSE /\ Done(i, "SMTP error")
            /\ UNCHANGED transmitted
    /\ UNCHANGED <<schedVars, counterVars, today, batch, vbatch, credentials>>
    /\ UNCHANGED <<verifierVars, requestVars>>

\* _daily_send_count += 1
SendCount(i) ==
    /\ i \in 1..Len(calls)
    /\ calls[i].pc = "count"
    /\ _daily_send_count' = _daily_send_count + 1
    /\ Done(i, "Email sent successfully")
    /\ UNCHANGED <<schedVars, _last_send_date, today, batch, vbatch, credentials,
                   transmitted, connections>>
    /\ UNCHANGED <<verifierVars, requestVars>>

\* The counter touched in the request thread (get_daily_send_count).
Touch ==
    /\ _daily_send_count' = get_daily_send_count
    /\ _last_send_date' = today

\* GET /api/status reads the counter.
get_status ==
    /\ Touch
    /\ UNCHANGED <<schedVars, senderVars>>
    /\ UNCHANGED <<verifierVars, requestVars>>

\* POST /api/leads/{lead_id}/send as far as the dispatch engine goes: 429
\* when no quota remains, else the message is handed to send_email.
send_lead_email ==
    /\ Touch
    /\ IF get_remaining_daily_quota <= 0
       THEN UNCHANGED calls
       ELSE send_email("immediate", 0)
    /\ UNCHANGED <<schedVars, today, batch, vbatch, credentials, transmitted, connections>>
    /\ UNCHANGED <<verifierVars, requestVars>>

\* _execute_email_send as far as the dispatch engine goes:
\* asyncio.run(send_email(...)) from the scheduler's thread.
scheduled_send ==
    /\ send_email("scheduler", 0)
    /\ UNCHANGED <<schedVars, counterVars, today, batch, vbatch, credentials,
                   transmitted, connections>>
    /\ UNCHANGED <<verifierVars, requestVars>>

----------------------------------------------------------------------------
(* Batches: send_emails_batch (gmail_sender.py), verify_emails_batch
   (smtp_verifier.py) *)

\* No batch is running.  n: len(emails); i: the loop index, from 1; call: the
\* awaited send_email call; day, count: history, the date and the counter at
\* the call of send_emails_batch.
NoBatch == [pc |-> "idle", n |-> 0, i |-> 0, results |-> <<>>, call |-> 0,
            day |-> NoDate, count |-> 0]

\* A result of the batch: the (success, message) tuple, and as history the
\* position of the message it is the outcome of.
Result(success, message, msg) == [success |-> success, message |-> message, of |-> msg]

\* Variant: the result is put in front of the earlier ones.
prepend(results, r) == <<r>> \o results

\* results.append(...)
append(results, r) == Append(results, r)

\* send_emails_batch(emails) is called with n messages.
send_emails_batch(n) ==
    /\ batch.pc = "idle"
    /\ batch' = [NoBatch EXCEPT !.pc = "check", !.n = n, !.i = 1, !.day = today,
                                !.count = get_daily_send_count]
    /\ UNCHANGED <<schedVars, counterVars, today, calls, vbatch, credentials,
                   transmitted, connections>>
    /\ UNCHANGED <<verifierVars, requestVars>>

\* The head of the loop body: no quota left, the message is answered without
\* a send (continue, no delay); else send_email is awaited.
BatchCheck ==
    /\ batch.pc = "check"
    /\ batch.i <= batch.n
    /\ Touch
    /\ IF get_remaining_daily_quota <= 0
       THEN /\ batch' = [batch EXCEPT
                           !.results = append(@, Result(FALSE, "Daily email cap reached",
                                                        batch.i)),
                           !.i = @ + 1]
            /\ UNCHANGED calls
       ELSE /\ send_email("batch", batch.i)
            /\ batch' = [batch EXCEPT !.pc = "await", !.call = Len(calls) + 1]
    /\ UNCHANGED <<schedVars, today, vbatch, credentials, transmitted, connections>>
    /\ UNCHANGED <<verifierVars, requestVars>>

\* send_email returned: the result is appended; the delay follows.
BatchCollect ==
    /\ batch.pc = "await"
    /\ calls[batch.call].pc = "done"
    /\ batch' = [batch EXCEPT
                   !.results = append(@, Result(calls[batch.call].result
                                                    = "Email sent successfully",
                                                calls[batch.call].result,
                                                calls[batch.call].msg)),
                   !.i = @ + 1,
                   !.pc = "check"]
    /\ UNCHANGED <<schedVars, counterVars, today, calls, vbatch, credentials,
                   transmitted, connections>>
    /\ UNCHANGED <<verifierVars, requestVars>>

\* return results
BatchReturn ==
    /\ batch.pc = "check"
    /\ batch.i > batch.n
    /\ batch' = [batch EXCEPT !.pc = "returned"]
    /\ UNCHANGED <<schedVars, counterVars, today, calls, vbatch, credentials,
                   transmitted, connections>>
    /\ UNCHANGED <<verifierVars, requestVars>>

\* The addresses and the statuses of the verifier.
Emails == {"a@x.com", "b@x.com"}
EmailVerificationStatus == {VALID, INVALID, UNKNOWN}

\* The inputs of a batch: the sequences of at most n addresses.
Inputs(n) == UNION {[1..k -> Emails] : k \in 0..n}

\* The state of verify_emails_batch; as history, the addresses verify_email
\* was called on and the positions after which the delay was slept.
NoVerifyBatch ==
    [pc |-> "idle", emails |-> <<>>, i |-> 0, results |-> <<>>,
     verified |-> <<>>, delays |-> <<>>]

VerificationResult(email, status) == [email |-> email, status |-> status]

\* verify_emails_batch(emails) is called.
verify_emails_batch(emails) ==
    /\ vbatch.pc = "idle"
    /\ vbatch' = [NoVerifyBatch EXCEPT !.pc = "loop", !.emails = emails, !.i = 1]
    /\ UNCHANGED <<schedVars, counterVars, today, calls, batch, credentials,
                   transmitted, connections>>
    /\ UNCHANGED <<verifierVars, requestVars>>

\* result = await verify_email(email); results.append(result); the delay
\* when the address is not the last one.
VerifyEmail(status) ==
    /\ vbatch.pc = "loop"
    /\ vbatch.i <= Len(vbatch.emails)
    /\ vbatch' = [vbatch EXCEPT
                    !.results = append(@, VerificationResult(vbatch.emails[vbatch.i], status)),
                    !.verified = Append(@, vbatch.emails[vbatch.i]),
                    !.delays = IF vbatch.i < Len(vbatch.emails) THEN Append(@, vbatch.i) ELSE @,
                    !.i = @ + 1]
    /\ UNCHANGED <<schedVars, counterVars, today, calls, batch, credentials,
                   transmitted, connections>>
    /\ UNCHANGED <<verifierVars, requestVars>>

\* return results
VerifyReturn ==
    /\ vbatch.pc = "loop"
    /\ vbatch.i > Len(vbatch.emails)
    /\ vbatch' = [vbatch EXCEPT !.pc = "returned"]
    /\ UNCHANGED <<schedVars, counterVars, today, calls, batch, credentials,
                   transmitted, connections>>
    /\ UNCHANGED <<verifierVars, requestVars>>

----------------------------------------------------------------------------
(* The verification engine (smtp_verifier.py, verification_providers.py) *)

\* A diagnostic is a sequence of words.  message.lower() and the substring
\* test `needle in text`, word by word.
lower(w) ==
    CASE w = "Temporary/Rate" -> "temporary/rate"
      [] w = "Connection" -> "connection"
      [] w = "Could" -> "could"
      [] w = "SMTP:" -> "smtp:"
      [] w = "System" -> "system"
      [] w = "MAIL" -> "mail"
      [] w = "FROM" -> "from"
      [] w = "Unexpected" -> "unexpected"
      [] w = "Name" -> "name"
      [] w = "Blocked" -> "blocked"
      [] OTHER -> w

Substrings == {<<"block", "block">>, <<"block", "blocked">>, <<"timeout", "timeout">>}

contains(needle, message) ==
    \E i \in 1..Len(message) : <<needle, lower(message[i])>> \in Substrings

\* str(e) of the exceptions a connection attempt or an SMTP step raises:
\* ConnectionRefusedError, SMTPServerDisconnected, socket.timeout,
\* socket.gaierror, and any other exception.
Errors == {"refused", "disconnected", "timeout", "gaierror", "other"}

ErrorText(e) ==
    CASE e = "refused" -> <<"[Errno", "111]", "Connection", "refused">>
      [] e = "disconnected" -> <<"Connection", "unexpectedly", "closed">>
      [] e = "timeout" -> <<"timed", "out">>
      [] e = "gaierror" -> <<"Name", "or", "service", "not", "known">>
      [] e = "other" -> <<"error">>

\* The reply texts of a mail server in the model.
ServerTexts == {<<"rejected">>, <<"Client", "host", "Blocked">>}

\* The response codes of the recipient probe in the model.
Codes == {250, 251, 421, 450, 499, 500, 550, 551, 552, 553, 554, 555}

\* What an exchanger does when contacted: an exception at some step, the
\* sender handshake refused, or the code of the recipient probe.
Behaviours ==
    {[kind |-> "error", error |-> e, code |-> 0, text |-> <<>>] : e \in Errors}
      \cup {[kind |-> "mail", error |-> None, code |-> 550, text |-> t] : t \in ServerTexts}
      \cup {[kind |-> "rcpt", error |-> None, code |-> c, text |-> <<"rejected">>] :
              c \in Codes}

Hosts == {"mx1", "mx2", "mx3"}

\* The answers of the MX lookup: an exception of the resolver, or records
\* (preference, exchange) in the order of the answer.
DnsFailures == {"NXDOMAIN", "NoAnswer", "NoNameservers", "Timeout"}

MX(preference, exchange) == [preference |-> preference, exchange |-> exchange]

Lookup(error, records) == [error |-> error, records |-> records]

MxRecords ==
    { <<MX(10, "mx1")>>,
      <<MX(10, "mx1"), MX(20, "mx2")>>,
      <<MX(20, "mx2"), MX(10, "mx1")>>,
      <<MX(10, "mx1"), MX(20, "mx2"), MX(30, "mx3")>>,
      <<MX(30, "mx3"), MX(20, "mx2"), MX(10, "mx1")>> }

MxAnswers ==
    {Lookup(e, <<>>) : e \in DnsFailures} \cup {Lookup(None, r) : r \in MxRecords}

\* mx_hosts.sort(key=lambda x: x[0]): the records by ascending preference.
RECURSIVE sort(_)
sort(records) ==
    IF records = <<>> THEN <<>>
    ELSE LET m == CHOOSE i \in 1..Len(records) :
                     /\ \A j \in 1..Len(records) :
                            records[i].preference <= records[j].preference
                     /\ \A j \in 1..(i - 1) :
                            records[j].preference # records[i].preference
         IN  <<records[m]>> \o
               sort(SubSeq(records, 1, m - 1) \o SubSeq(records, m + 1, Len(records)))

\* Variant: the exchanges in the order of the answer.
answer_order(answer) ==
    IF answer.error \in DnsFailures THEN <<>>
    ELSE [i \in 1..Len(answer.records) |-> answer.records[i].exchange]

\* get_mx_records: the exchanges by preference; no records, or an exception
\* of the resolver: the empty list.
get_mx_records(answer) ==
    IF answer.error \in DnsFailures THEN <<>>
    ELSE [i \in 1..Len(answer.records) |-> sort(answer.records)[i].exchange]

\* The outcome of a verification: status and diagnostic, and as history the
\* exchangers a connection was attempted to and the providers called.
Outcome(status, message, connected, called) ==
    [status |-> status, message |-> message, connected |-> connected, called |-> called]

\* Variant: an address no exchanger decided on counts as rejected.
Rejected(last_error, connected) ==
    Outcome(INVALID, <<"Could", "not", "verify", "via", "SMTP:">> \o last_error,
            connected, <<>>)

\* The answer after the loop: no exchanger decided on the address.
Unverified(last_error, connected) ==
    Outcome(UNKNOWN, <<"Could", "not", "verify", "via", "SMTP:">> \o last_error,
            connected, <<>>)

\* Variant of the response code mapping: a temporary failure is a rejection.
RcptStrict(code, message) ==
    IF code = 250 THEN <<VALID, <<"Mailbox", "exists">>>>
    ELSE IF code >= 400 /\ code < 600 THEN <<INVALID, <<"Rejected">>>>
    ELSE <<None, <<"Unexpected", "response">> \o message>>

\* The decision on the code of the recipient probe: status and diagnostic;
\* None: no decision, the next exchanger is tried.
Rcpt(code, message) ==
    IF code = 250 THEN <<VALID, <<"Mailbox", "exists">>>>
    ELSE IF code = 550 THEN <<INVALID, <<"Mailbox", "does", "not", "exist">>>>
    ELSE IF code = 551 \/ code = 552 \/ code = 553 \/ code = 554
         THEN <<INVALID, <<"Rejected">> \o message>>
    ELSE IF 400 <= code /\ code < 500
         THEN <<UNKNOWN, <<"Temporary/Rate", "limit", "block">>>>
    ELSE <<None, <<"Unexpected", "response">> \o message>>

\* The loop over mx_hosts[:2] from the k-th host on.
RECURSIVE TryExchangers(_, _, _, _, _)
TryExchangers(hosts, k, behaviour, last_error, connected) ==
    IF k > Len(hosts)
    THEN Unverified(last_error, connected)
    ELSE LET b == behaviour[hosts[k]]
             tried == Append(connected, hosts[k])
         IN  IF b.kind = "error"
             THEN TryExchangers(hosts, k + 1, behaviour,
                      (IF b.error = "other" THEN <<"System", "error:">>
                                            ELSE <<"Connection", "failed:">>)
                          \o ErrorText(b.error),
                      tried)
             ELSE IF b.kind = "mail"
             THEN TryExchangers(hosts, k + 1, behaviour,
                      <<"MAIL", "FROM", "rejected">> \o b.text, tried)
             ELSE IF Rcpt(b.code, b.text)[1] # None
                  THEN Outcome(Rcpt(b.code, b.text)[1], Rcpt(b.code, b.text)[2], tried, <<>>)
                  ELSE TryExchangers(hosts, k + 1, behaviour, Rcpt(b.code, b.text)[2], tried)

\* Variant: a lookup that finds no records leaves the address undecided.
NoRecordsUnknown == Outcome(UNKNOWN, <<"No", "MX", "records", "found">>, <<>>, <<>>)

\* The answer for a domain without MX records.
NoRecords == Outcome(INVALID, <<"No", "MX", "records", "found">>, <<>>, <<>>)

\* _verify_email_sync: validate_email (the address is accepted, rejected
\* for its syntax or its domain, or another exception is passed over), the
\* MX lookup, the SMTP probes of the top two exchangers.
_verify_email_sync(in) ==
    IF in.validate \in {"EmailNotValidError", "EmailUndeliverableError"}
    THEN Outcome(INVALID, <<"Syntax", "error">>, <<>>, <<>>)
    ELSE LET mx_hosts == get_mx_records(in.mx) IN
         IF mx_hosts = <<>> THEN NoRecords
         ELSE TryExchangers(SubSeq(mx_hosts, 1, IF Len(mx_hosts) < 2 THEN Len(mx_hosts) ELSE 2),
                            1, in.behaviour, <<>>, <<>>)

\* verify_email: the status and message of _verify_email_sync.
verify_email(in) == _verify_email_sync(in)

\* check_catch_all over the statuses of its probes of random local parts.
check_catch_all(samples) ==
    /\ Len(samples) > 0
    /\ \A i \in 1..Len(samples) : samples[i] = VALID

\* The providers in the order of SmartEmailVerifier.__init__.
ProviderOrder == <<"Trumail", "Hunter.io", "Kickbox", "AbstractAPI">>

\* self.providers for the set of enabled providers.
providers(enabled) == SelectSeq(ProviderOrder, LAMBDA q : q \in enabled)

\* What provider.verify does: a result of some status, or an exception.
ProviderAnswers == {VALID, INVALID, CATCH_ALL, UNKNOWN, "raise"}

\* The loop of _verify_with_apis from the k-th provider on.
RECURSIVE Apis(_, _, _, _, _)
Apis(ps, k, answer, last_result, called) ==
    IF k > Len(ps)
    THEN IF last_result # None
         THEN Outcome(CATCH_ALL, <<last_result>>, <<>>, called)
         ELSE Outcome(UNKNOWN, <<"All", "API", "providers", "returned", "unknown", "status">>,
                      <<>>, called)
    ELSE LET a == answer[ps[k]] IN
         IF a \in {VALID, INVALID} THEN Outcome(a, <<ps[k]>>, <<>>, Append(called, ps[k]))
         ELSE Apis(ps, k + 1, answer,
                   IF a = CATCH_ALL THEN ps[k] ELSE last_result,
                   Append(called, ps[k]))

\* Variant: the answer of the last provider counts.
last_provider_wins(in) ==
    LET ps == providers(in.enabled) IN
    IF ps = <<>>
    THEN Outcome(UNKNOWN, <<"No", "API", "providers", "configured">>, <<>>, <<>>)
    ELSE Outcome(IF in.answer[ps[Len(ps)]] = "raise" THEN UNKNOWN ELSE in.answer[ps[Len(ps)]],
                 <<ps[Len(ps)]>>, <<>>, ps)

\* SmartEmailVerifier._verify_with_apis
_verify_with_apis(in) ==
    IF providers(in.enabled) = <<>>
    THEN Outcome(UNKNOWN, <<"No", "API", "providers", "configured">>, <<>>, <<>>)
    ELSE Apis(providers(in.enabled), 1, in.answer, None, <<>>)

\* "block" in message.lower() or "timeout" in message.lower()
Blocked(message) == contains("block", message) \/ contains("timeout", message)

\* SmartEmailVerifier.verify
verify(in) ==
    IF in.strategy = "smtp" THEN verify_email(in)
    ELSE IF in.strategy = "api" THEN _verify_with_apis(in)
    ELSE LET smtp_result == verify_email(in)
             api_result == _verify_with_apis(in)
         IN  IF smtp_result.status \in {VALID, INVALID} THEN smtp_result
             ELSE IF /\ smtp_result.status = UNKNOWN
                     /\ Blocked(smtp_result.message)
                     /\ api_result.status # UNKNOWN
                  THEN [api_result EXCEPT !.connected = smtp_result.connected]
             ELSE IF smtp_result.status = VALID /\ check_catch_all(<<in.sample>>)
                  THEN Outcome(CATCH_ALL, <<"Detected", "as", "catch-all", "domain">>,
                               smtp_result.connected, <<>>)
             ELSE IF smtp_result.status = UNKNOWN /\ Blocked(smtp_result.message)
                  THEN [smtp_result EXCEPT !.called = api_result.called]
             ELSE smtp_result

\* No call of verify is under way.
NoProbe == [pc |-> "idle"]

\* smart_verify_email: one call of verify on the global verifier, in the
\* surroundings `in`: the strategy and enabled providers of the
\* configuration, and what validate_email, the resolver, the exchangers,
\* the providers and the catch-all probe answer.
smart_verify_email(in) ==
    /\ probe = NoProbe
    /\ probe' = [pc |-> "done", in |-> in, result |-> verify(in)]
    /\ UNCHANGED <<vrun, response>>
    /\ UNCHANGED <<schedVars, counterVars, senderVars, requestVars>>

----------------------------------------------------------------------------
(* The bulk verification of the leads (routes/actions.py) and the edit of
   a lead (routes/leads.py) *)

\* The state of run_verification: the handler and the leads captured by
\* the request, the position of the loop, the cache of the run, and inside
\* handler.update_lead the dump of the lead that was read.
RunState(pc, h, queue, emails, i, cache, status, lead_dict) ==
    [pc |-> pc, handler |-> h, queue |-> queue, emails |-> emails, i |-> i,
     cache |-> cache, status |-> status, lead_dict |-> lead_dict]

\* No bulk verification was started.
NoRun == RunState("idle", 0, <<>>, <<>>, 0, {}, PENDING, NoLead)

\* The statuses a verification returns.
VerificationStatuses == {VALID, INVALID, CATCH_ALL, UNKNOWN}

\* handler.leads in the order of the file.
LeadIds == [k \in 1..NumLeads |-> k]

\* The background tasks of POST /verify, in the order they were added.
Runs == 1..MaxRuns

\* No task was added yet.
NoRuns == [k \in Runs |-> NoRun]

\* The task a next accepted request adds.
NextRun == CHOOSE k \in Runs : vrun[k].pc = "idle" /\ \A j \in 1..(k - 1) : vrun[j].pc # "idle"

\* POST /verify: 404 without a handler, 409 while the progress record says
\* running.  The pending leads with an address, all or those selected, are
\* handed to the background task run_verification; with no such lead the
\* request is answered and nothing happens.
verify_emails(lead_ids) ==
    LET selected == IF lead_ids # {} THEN lead_ids ELSE Leads
        leads_to_verify ==
            SelectSeq(LeadIds, LAMBDA l : /\ l \in selected
                                         /\ leads[l].present
                                         /\ leads[l].email # ""
                                         /\ leads[l].email_verified = PENDING)
    IN  /\ handler # 0
        /\ ~_operation_progress
        /\ \E k \in Runs : vrun[k].pc = "idle"
        /\ leads_to_verify # <<>>
        /\ vrun' = [vrun EXCEPT ![NextRun] =
                      RunState("queued", handler, leads_to_verify,
                          [k \in 1..Len(leads_to_verify) |-> leads[leads_to_verify[k]].email],
                          1, {}, PENDING, NoLead)]
        /\ UNCHANGED <<probe, response>>
        /\ UNCHANGED requestVars
        /\ UNCHANGED <<schedVars, counterVars, senderVars>>

\* The response was sent and the background task starts: run_verification
\* sets the progress record to running and enters its loop.
StartRun(k) ==
    /\ vrun[k].pc = "queued"
    /\ vrun' = [vrun EXCEPT ![k].pc = "loop"]
    /\ _operation_progress' = TRUE
    /\ UNCHANGED <<probe, response>>
    /\ UNCHANGED <<writable, unsaved, writers, immediate>>
    /\ UNCHANGED <<schedVars, counterVars, senderVars>>

\* run_verification, one lead: the status from the cache of the run or
\* from smart_verify_email (then cached, and the delay slept), and the
\* first half of handler.update_lead: the lead is found and dumped.
VerifyLead(k, status) ==
    /\ vrun[k].pc = "loop"
    /\ vrun[k].i <= Len(vrun[k].queue)
    /\ \A c \in vrun[k].cache : c[1] = vrun[k].emails[vrun[k].i] => c[2] = status
    /\ vrun' = [vrun EXCEPT
                  ![k].pc = "write",
                  ![k].cache = @ \cup {<<vrun[k].emails[vrun[k].i], status>>},
                  ![k].status = status,
                  ![k].lead_dict = IF vrun[k].handler = handler
                                   THEN leads[vrun[k].queue[vrun[k].i]] ELSE NoLead]
    /\ UNCHANGED <<probe, response>>
    /\ UNCHANGED requestVars
    /\ UNCHANGED <<schedVars, counterVars, senderVars>>

\* The second half of handler.update_lead: the dump, with the status and
\* the time of the check, replaces the lead.  Then the top of the loop: the
\* run stops when the progress record no longer says running.
WriteLead(k) ==
    /\ vrun[k].pc = "write"
    /\ leads' = IF vrun[k].handler = handler /\ vrun[k].lead_dict.present
                THEN update_lead([leads EXCEPT ![vrun[k].queue[vrun[k].i]] = vrun[k].lead_dict],
                                 vrun[k].queue[vrun[k].i],
                                 [email_verified |-> vrun[k].status,
                                  verification_checked_at |-> now])
                ELSE leads
    /\ vrun' = [vrun EXCEPT ![k].pc = IF _operation_progress THEN "loop" ELSE "stopped",
                            ![k].i = @ + 1,
                            ![k].lead_dict = NoLead]
    /\ UNCHANGED <<now, running, timers, jobs_metadata, disk, executing, handler,
                   dispatched, jobCount, missed, crashes, ioFailures>>
    /\ UNCHANGED <<probe, response>>
    /\ UNCHANGED requestVars
    /\ UNCHANGED <<counterVars, senderVars>>

\* The loop of run_verification is over or was left: the final save,
\* running = False.
FinishRun(k) ==
    /\ \/ vrun[k].pc = "loop" /\ vrun[k].i > Len(vrun[k].queue)
       \/ vrun[k].pc = "stopped"
    /\ vrun' = [vrun EXCEPT ![k].pc = "finished"]
    /\ _operation_progress' = FALSE
    /\ UNCHANGED <<probe, response>>
    /\ IF vrun[k].handler = handler THEN save ELSE UNCHANGED unsaved
    /\ UNCHANGED <<writable, writers, immediate>>
    /\ UNCHANGED <<schedVars, counterVars, senderVars>>

\* The bodies of PUT /leads/{lead_id} in the model: LeadUpdate with any of
\* subject and draft left out.
LeadUpdate ==
    {[email_subject |-> su, email_draft |-> dr] : su \in {None, "s2"}, dr \in {None, "b2"}}

\* update_dict: the fields of the body that are not None.
update_dict(update) == [k \in {f \in DOMAIN update : update[f] # None} |-> update[k]]

\* PUT /leads/{lead_id}
update_lead_endpoint(lead_id, update) ==
    /\ IF handler = 0
       THEN /\ response' = "404 No Excel file loaded."
            /\ UNCHANGED <<leads, unsaved>>
       ELSE IF DOMAIN update_dict(update) = {}
       THEN /\ response' = "400 No fields to update"
            /\ UNCHANGED <<leads, unsaved>>
       ELSE IF ~leads[lead_id].present
       THEN /\ response' = "404 Lead not found"
            /\ leads' = update_lead(leads, lead_id, update_dict(update))
            /\ UNCHANGED unsaved
       ELSE /\ response' = "200"
            /\ leads' = update_lead(leads, lead_id, update_dict(update))
            /\ save
    /\ UNCHANGED <<now, running, timers, jobs_metadata, disk, executing, handler,
                   dispatched, jobCount, missed, crashes, ioFailures>>
    /\ UNCHANGED <<probe, vrun>>
    /\ UNCHANGED <<writable, writers, immediate, _operation_progress>>
    /\ UNCHANGED <<counterVars, senderVars>>

----------------------------------------------------------------------------
(* The environment *)

Tick ==
    /\ now < MaxTime
    /\ now' = now + 1
    /\ UNCHANGED <<running, timers, jobs_metadata, disk, executing, handler, leads,
                   dispatched, jobCount, missed, crashes, ioFailures>>
    /\ UNCHANGED <<counterVars, senderVars>>
    /\ UNCHANGED <<verifierVars, requestVars>>

\* The process dies and is started again: memory is lost, EmailScheduler.__init__
\* reads the persistence file, no file of leads is loaded, nothing is started.
Restart ==
    /\ crashes < MaxCrashes
    /\ crashes' = crashes + 1
    /\ running' = FALSE
    /\ timers' = {}
    /\ executing' = {}
    /\ jobs_metadata' = _load_jobs_metadata
    /\ handler' = 0
    /\ leads' = [l \in Leads |-> NoLead]
    /\ _daily_send_count' = 0
    /\ _last_send_date' = NoDate
    /\ calls' = <<>>
    /\ batch' = NoBatch
    /\ vbatch' = NoVerifyBatch
    /\ UNCHANGED <<now, disk, dispatched, jobCount, missed, ioFailures>>
    /\ UNCHANGED <<today, credentials, transmitted, connections>>
    /\ vrun' = NoRuns
    /\ UNCHANGED <<probe, response>>
    /\ unsaved' = FALSE
    /\ writers' = {}
    /\ immediate' = {}
    /\ _operation_progress' = FALSE
    /\ UNCHANGED writable

\* The file of the lead store stops being writable (it is open in another
\* program, the disk is full), or is writable again.
Lock ==
    /\ writable' = ~writable
    /\ UNCHANGED <<unsaved, writers, immediate, _operation_progress>>
    /\ UNCHANGED <<schedVars, counterVars, senderVars, verifierVars>>

\* Midnight passes: date.today() returns the next date.
NewDay ==
    /\ today < MaxDays
    /\ today' = today + 1
    /\ UNCHANGED <<schedVars, counterVars, calls, batch, vbatch, credentials,
                   transmitted, connections>>
    /\ UNCHANGED <<verifierVars, requestVars>>

\* The request bodies of the model: a subject with its body, or both left to
\* the lead's draft.
Requests == {<<"s1", "b1">>, <<"s2", "b2">>, <<None, None>>}

----------------------------------------------------------------------------
(* The application from its first start: no persistence file yet. *)

Boot(file) ==
    /\ now = 0
    /\ running = FALSE
    /\ timers = {}
    /\ disk = file
    /\ jobs_metadata = _load_jobs_metadata
    /\ executing = {}
    /\ handler = 0
    /\ leads = [l \in Leads |-> NoLead]
    /\ dispatched = [j \in Jobs |-> 0]
    /\ jobCount = 0
    /\ missed = {}
    /\ crashes = 0
    /\ ioFailures = 0
    /\ _daily_send_count = 0
    /\ _last_send_date = NoDate
    /\ today = 1
    /\ calls = <<>>
    /\ batch = NoBatch
    /\ vbatch = NoVerifyBatch
    /\ transmitted = [d \in 1..MaxDays |-> 0]
    /\ connections = 0
    /\ probe = NoProbe
    /\ vrun = NoRuns
    /\ response = None
    /\ writable = TRUE
    /\ unsaved = FALSE
    /\ writers = {}
    /\ immediate = {}
    /\ _operation_progress = FALSE

Init == Boot(File(<<>>)) /\ credentials = TRUE

Next ==
    \/ \E ds \in DataSets : upload_excel(ds)
    \/ \E l \in Leads, t \in Times, r \in Requests :
         schedule_email_endpoint(l, r[1], r[2], t)
    \/ \E l \in Leads : cancel_schedule_endpoint(l)
    \/ start
    \/ \E t \in timers : Fire(t)
    \/ \E t \in timers : Misfire(t)
    \/ \E x \in executing : ExecRemove(x)
    \/ \E x \in executing, success \in BOOLEAN : ExecSend(x, success)
    \/ \E x \in executing : ExecUpdate(x)
    \/ Tick
    \/ Restart

Spec == Init /\ [][Next]_vars

----------------------------------------------------------------------------
(* The application started over a persistence file left by an earlier run:
   one job of lead 1, alone or beside an entry of lead 2 or of no lead, in
   either order; or a file that does not parse. *)

FileEntries1 == {Entry("1", "s1", "b1", isoformat(t), FileJob(1)) : t \in Times}

FileEntries2 ==
    {Entry("2", "s2", "b2", isoformat(t), FileJob(2)) : t \in Times} \cup
    { Entry("x", "s2", "b2", isoformat(MaxTime), FileJob(3)),
      Entry("2", "s2", "b2", AbsentDate, FileJob(2)),
      Entry("2", "s2", "b2", BadDate, FileJob(2)),
      Entry("2", Absent, "b2", isoformat(MaxTime), FileJob(2)),
      Entry("2", "s2", Absent, isoformat(MaxTime), FileJob(2)) }

PersistenceFiles ==
    {Garbage} \cup {File(<<a>>) : a \in FileEntries1}
        \cup {File(<<a, b>>) : a \in FileEntries1, b \in FileEntries2}
        \cup {File(<<b, a>>) : a \in FileEntries1, b \in FileEntries2}

RecoveryInit == (\E file \in PersistenceFiles : Boot(file)) /\ credentials = TRUE

RecoveryNext ==
    \/ \E ds \in DataSets : upload_excel(ds)
    \/ \E l \in Leads : cancel_schedule_endpoint(l)
    \/ start
    \/ \E t \in timers : Fire(t)
    \/ \E t \in timers : Misfire(t)
    \/ \E x \in executing : ExecRemove(x)
    \/ \E x \in executing, success \in BOOLEAN : ExecSend(x, success)
    \/ \E x \in executing : ExecUpdate(x)
    \/ Tick
    \/ Restart

RecoverySpec == RecoveryInit /\ [][RecoveryNext]_vars

----------------------------------------------------------------------------
(* The dispatch engine under its callers: immediate sends, a batch and
   scheduler-fired sends share the pool of two workers; the date changes. *)

DispatchInit == Boot(File(<<>>)) /\ credentials \in BOOLEAN

DispatchNext ==
    \/ send_lead_email
    \/ scheduled_send
    \/ get_status
    \/ \E n \in 1..MaxBatch : send_emails_batch(n)
    \/ BatchCheck
    \/ BatchCollect
    \/ BatchReturn
    \/ \E i \in 1..Len(calls) : SendBegin(i)
    \/ \E i \in 1..Len(calls) : SendCheck(i)
    \/ \E i \in 1..Len(calls), ok \in BOOLEAN : SendTransport(i, ok)
    \/ \E i \in 1..Len(calls) : SendCount(i)
    \/ NewDay

DispatchSpec == DispatchInit /\ [][DispatchNext]_vars

(* The sends of one calendar date, the statements of the workers
   interleaved. *)

CounterNext ==
    \/ send_lead_email
    \/ scheduled_send
    \/ \E i \in 1..Len(calls) : SendBegin(i)
    \/ \E i \in 1..Len(calls) : SendCompare(i)
    \/ \E i \in 1..Len(calls) : SendZero(i)
    \/ \E i \in 1..Len(calls) : SendCap(i)
    \/ \E i \in 1..Len(calls), ok \in BOOLEAN : SendTransport(i, ok)
    \/ \E i \in 1..Len(calls) : SendCount(i)

CounterSpec == DispatchInit /\ [][CounterNext]_vars

(* One batch send and one batch verification, each alone with its pool. *)

BatchNext ==
    \/ \E n \in 0..MaxBatch : send_emails_batch(n)
    \/ BatchCheck
    \/ BatchCollect
    \/ BatchReturn
    \/ \E i \in 1..Len(calls) : SendBegin(i)
    \/ \E i \in 1..Len(calls) : SendCheck(i)
    \/ \E i \in 1..Len(calls), ok \in BOOLEAN : SendTransport(i, ok)
    \/ \E i \in 1..Len(calls) : SendCount(i)
    \/ NewDay
    \/ \E emails \in Inputs(MaxBatch) : verify_emails_batch(emails)
    \/ \E status \in EmailVerificationStatus : VerifyEmail(status)
    \/ VerifyReturn

BatchSpec == DispatchInit /\ [][BatchNext]_vars

(* The two ways a message goes out: the immediate send of the first lead
   and the scheduled send of the second. *)

First == 1
Second == 2

AdvanceNext ==
    \/ \E ds \in DataSets : upload_excel(ds)
    \/ \E r \in Requests : ImmediateBegin(First, r[1], r[2])
    \/ \E y \in immediate, success \in BOOLEAN : ImmediateSend(y, success)
    \/ \E y \in immediate : ImmediateUpdate(y)
    \/ schedule_email_endpoint(Second, "s1", "b1", now)
    \/ start
    \/ \E t \in timers : Fire(t)
    \/ \E x \in executing : ExecRemove(x)
    \/ \E x \in executing : ExecSend(x, TRUE)
    \/ \E x \in executing : ExecUpdate(x)

AdvanceSpec == Init /\ [][AdvanceNext]_vars

(* The persistence file written by the request thread and by the runs of
   fired jobs, every write succeeding. *)

MappingNext ==
    \/ \E l \in Leads, r \in {<<"s1", "b1">>} : ScheduleStart(l, r[1], r[2], now)
    \/ \E l \in Leads : CancelStart(l)
    \/ start
    \/ \E t \in timers : Fire(t)
    \/ \E x \in executing : RemoveStart(x)
    \/ \E w \in writers : SaveOpen(w)
    \/ \E w \in writers : SaveDump(w)
    \/ \E w \in writers : SaveClose(w)
    \/ \E x \in executing : ExecSend(x, FALSE)

MappingSpec == Init /\ [][MappingNext]_vars

(* The scheduler and the request handlers while a write of either file may
   fail. *)

PersistNext ==
    \/ \E ds \in DataSets : upload_excel(ds)
    \/ \E l \in Leads, t \in Times, r \in Requests :
         schedule_email_endpoint(l, r[1], r[2], t)
    \/ \E l \in Leads : cancel_schedule_endpoint(l)
    \/ start
    \/ \E t \in timers : Fire(t)
    \/ \E x \in executing : ExecRemove(x)
    \/ \E x \in executing, success \in BOOLEAN : ExecSend(x, success)
    \/ \E x \in executing : ExecUpdate(x)
    \/ Lock

PersistSpec == Init /\ [][PersistNext]_vars

(* One verification of an address, in every surrounding of the model. *)

\* An exchanger that accepts the address.
Accepting == [kind |-> "rcpt", error |-> None, code |-> 250, text |-> <<"rejected">>]

\* The exchangers of a domain: the two the verifier may contact behave as
\* b1 and b2.
Exchangers(b1, b2) ==
    [h \in Hosts |-> IF h = "mx1" THEN b1 ELSE IF h = "mx2" THEN b2 ELSE Accepting]

\* The providers: those enabled answer as a1..a4.
Answers(enabled, a) ==
    [q \in {ProviderOrder[k] : k \in 1..Len(ProviderOrder)} |->
        IF q \in enabled THEN a[q] ELSE UNKNOWN]

Input(strategy, validate, mx, behaviour, enabled, answer, sample) ==
    [strategy |-> strategy, validate |-> validate, mx |-> mx, behaviour |-> behaviour,
     enabled |-> enabled, answer |-> answer, sample |-> sample]

ProviderNames == {ProviderOrder[k] : k \in 1..Len(ProviderOrder)}

NoAnswers == [q \in ProviderNames |-> UNKNOWN]

SmtpInputs ==
    {Input("smtp", v, mx, Exchangers(b1, b2), {}, NoAnswers, UNKNOWN) :
        v \in {"ok", "Exception"}, mx \in MxAnswers, b1 \in Behaviours, b2 \in Behaviours}
      \cup {Input("smtp", v, mx, Exchangers(Accepting, Accepting), {}, NoAnswers, UNKNOWN) :
              v \in {"ok", "Exception", "EmailNotValidError", "EmailUndeliverableError"},
              mx \in MxAnswers}

ApiInputs ==
    {Input("api", "ok", Lookup(None, <<MX(10, "mx1")>>), Exchangers(Accepting, Accepting),
           enabled, Answers(enabled, a), UNKNOWN) :
        enabled \in SUBSET ProviderNames, a \in [ProviderNames -> ProviderAnswers]}

SmartBehaviours ==
    {b \in Behaviours :
        \/ b.kind = "error" /\ b.error \in {"refused", "timeout"}
        \/ b.kind = "mail" /\ b.text # <<"rejected">>
        \/ b.kind = "rcpt" /\ b.code \in {250, 450, 550}}

SmartProviders == {"Trumail", "Hunter.io"}

SmartInputs ==
    {Input("smart", "ok", mx, Exchangers(b1, b2), enabled, Answers(enabled, a), sample) :
        mx \in {Lookup("Timeout", <<>>), Lookup(None, <<MX(10, "mx1")>>),
                Lookup(None, <<MX(10, "mx1"), MX(20, "mx2")>>)},
        b1 \in SmartBehaviours, b2 \in SmartBehaviours,
        enabled \in SUBSET SmartProviders,
        a \in {f \in [ProviderNames -> ProviderAnswers] :
                 \A q \in ProviderNames \ SmartProviders : f[q] = UNKNOWN},
        sample \in {VALID, UNKNOWN}}

EngineNext == \E in \in SmtpInputs \cup ApiInputs \cup SmartInputs : smart_verify_email(in)

EngineSpec == Init /\ [][EngineNext]_vars

(* The lead store under its writers: the request handlers and the bulk
   verification on the event loop, the job function on the scheduler's
   worker thread.  While the event loop is inside handler.update_lead, only
   the worker thread runs. *)

InUpdate == \E k \in Runs : vrun[k].pc = "write"

\* No task of POST /verify was added yet: the runs of this specification
\* are single ones.
NoTask == vrun = NoRuns

VerifyNext ==
    \/ ~InUpdate /\ \E ds \in DataSets : upload_excel(ds)
    \/ ~InUpdate /\ \E l \in Leads : schedule_email_endpoint(l, "s1", "b1", now)
    \/ ~InUpdate /\ start
    \/ \E t \in timers : Fire(t)
    \/ \E x \in executing : ExecRemove(x)
    \/ \E x \in executing, success \in BOOLEAN : ExecSend(x, success)
    \/ \E x \in executing : ExecUpdate(x)
    \/ ~InUpdate /\ NoTask /\ \E lead_ids \in SUBSET Leads : verify_emails(lead_ids)
    \/ ~InUpdate /\ \E k \in Runs : StartRun(k)
    \/ ~InUpdate /\ \E k \in Runs, status \in VerificationStatuses : VerifyLead(k, status)
    \/ \E k \in Runs : WriteLead(k)
    \/ ~InUpdate /\ \E k \in Runs : FinishRun(k)

VerifySpec == Init /\ [][VerifyNext]_vars

(* The life of a job that is scheduled once and neither cancelled nor
   replaced, in a process that keeps running.  Time passes; a started
   BackgroundScheduler wakes for its due jobs and its pool runs them to
   their end.  EmailScheduler.start() has no caller in the application, so
   nothing obliges it to happen. *)

\* The lead has no job: no timer, no entry, no run.
Unscheduled(l) ==
    /\ \A t \in timers : t.lead_id # l
    /\ ~DictHas(jobs_metadata, str(l))
    /\ ~Busy(str(l))

LiveNext ==
    \/ \E ds \in DataSets : upload_excel(ds)
    \/ \E l \in Leads, t \in Times :
         Unscheduled(l) /\ schedule_email_endpoint(l, "s1", "b1", t)
    \/ start
    \/ \E t \in timers : Fire(t)
    \/ \E x \in executing : ExecRemove(x)
    \/ \E x \in executing, success \in BOOLEAN : ExecSend(x, success)
    \/ \E x \in executing : ExecUpdate(x)
    \/ Tick

LiveSpec ==
    /\ Init
    /\ [][LiveNext]_vars
    /\ WF_vars(Tick)
    /\ WF_vars(\E t \in timers : Fire(t))
    /\ WF_vars(\E x \in executing : ExecRemove(x))
    /\ WF_vars(\E x \in executing, success \in BOOLEAN : ExecSend(x, success))
    /\ WF_vars(\E x \in executing : ExecUpdate(x))

(* The requests of POST /verify and their background tasks, all on the
   event loop. *)

RunsNext ==
    \/ ~InUpdate /\ \E ds \in DataSets : upload_excel(ds)
    \/ ~InUpdate /\ \E lead_ids \in SUBSET Leads : verify_emails(lead_ids)
    \/ ~InUpdate /\ \E k \in Runs : StartRun(k)
    \/ ~InUpdate /\ \E k \in Runs, status \in VerificationStatuses : VerifyLead(k, status)
    \/ \E k \in Runs : WriteLead(k)
    \/ ~InUpdate /\ \E k \in Runs : FinishRun(k)

RunsSpec == Init /\ [][RunsNext]_vars

(* The lead store under the request handlers that write it. *)

StoreNext ==
    \/ \E ds \in DataSets : upload_excel(ds)
    \/ \E l \in Leads, update \in LeadUpdate : update_lead_endpoint(l, update)
    \/ \E l \in Leads, t \in Times : schedule_email_endpoint(l, "s1", "b1", t)
    \/ \E l \in Leads : cancel_schedule_endpoint(l)

StoreSpec == Init /\ [][StoreNext]_vars

----------------------------------------------------------------------------
(* Properties *)

\* The step of start(): the scheduler goes from stopped to running.
StartStep == ~running /\ running'

\* The step that ends the run x of _execute_email_send after a successful
\* send, writing to the handler that is still the current one.
UpdateStep(x) ==
    /\ x \in executing
    /\ x.pc = "update"
    /\ x \notin executing'
    /\ crashes' = crashes
    /\ x.handler = handler

Entries(d) == {d[i] : i \in 1..Len(d)}

TimersOf(tm, l) == {t \in tm : t.lead_id = l}

\* C1: a job is handed to the dispatch engine at most once in any execution,
\* also when the process dies during the send and recovery runs afterwards.
C1_DispatchedAtMostOnce == \A j \in Jobs : dispatched[j] <= 1

\* A job was sent, the process restarted with the job's entry still in the
\* file, and recovery ran.
C1_Witness ==
    \E e \in Entries(jobs_metadata) :
        /\ e.jid \in Jobs
        /\ dispatched[e.jid] = 1
        /\ crashes > 0
        /\ running

\* The timers and entries of lead l after a step are one timer and one entry,
\* with this subject, body and run time.
ScheduledAs(l, subject, body, send_at) ==
    LET idx == {i \in 1..Len(jobs_metadata') : jobs_metadata'[i].key = str(l)} IN
    /\ Cardinality(TimersOf(timers', l)) = 1
    /\ \A t \in TimersOf(timers', l) :
          t.subject = subject /\ t.body = body /\ t.run_date = send_at
    /\ Cardinality(idx) = 1
    /\ \A i \in idx :
          /\ jobs_metadata'[i].subject = subject
          /\ jobs_metadata'[i].body = body
          /\ Parses(jobs_metadata'[i].run_date)
          /\ fromisoformat(jobs_metadata'[i].run_date) = send_at

\* C2: a lead has at most one timer and at most one persisted entry at any
\* time, and a schedule call leaves exactly one timer and exactly one entry
\* for its lead, both with the subject, body and run time of that call.
C2_OneJobPerLead ==
    /\ [](\A l \in Leads :
            /\ Cardinality(TimersOf(timers, l)) <= 1
            /\ Cardinality({i \in 1..Len(jobs_metadata) :
                              jobs_metadata[i].key = str(l)}) <= 1)
    /\ [][\A l \in Leads, t \in Times, r \in Requests :
            schedule_email_endpoint(l, r[1], r[2], t) =>
                ScheduledAs(l,
                    IF r[1] # None THEN r[1] ELSE leads[l].email_subject,
                    IF r[2] # None THEN r[2] ELSE leads[l].email_draft, t)]_vars

\* Both schedule calls of the run went to one lead, whose timer and entry are
\* those of the second call; the scheduler never ran.
C2_Witness ==
    /\ jobCount = 2 /\ crashes = 0 /\ ~running
    /\ \E l \in Leads :
          /\ \A k \in Leads \ {l} : leads[k].email_subject = None
          /\ \E t \in timers : t.lead_id = l /\ t.jid = 2
          /\ get_scheduled_job(jobs_metadata, l).jid = 2

\* C3: whenever no job is executing, the lead ids that hold a timer are the
\* lead ids that hold a persisted entry.
C3_TimersMatchEntries ==
    (running /\ executing = {}) =>
        {t.lead_id : t \in timers}
            = {int(e.key) : e \in {e \in Entries(jobs_metadata) : IsInt(e.key)}}

C5_MissedJobNotFired ==
    [][/\ StartStep =>
            /\ \A t \in timers' \ timers : t.run_date > now
            /\ executing' = executing
            /\ dispatched' = dispatched
            /\ leads' = leads
       /\ \A j \in missed : dispatched'[j] = dispatched[j]]_vars

\* Recovery has met a missed job while a file of leads with addresses is
\* loaded, so the job could be sent if it were fired.
C5_Witness ==
    \E j \in missed :
        /\ dispatched[j] = 0
        /\ running
        /\ \E e \in Entries(jobs_metadata) : e.jid = j /\ Sendable(int(e.key))

\* C6: recovery leaves the entry of a missed job in the job mapping, where
\* get_scheduled_job finds it, and registers no timer for it.
C6_MissedJobKept ==
    [][StartStep =>
         \A e \in Entries(jobs_metadata) :
            ( /\ IsInt(e.key)
              /\ Parses(e.run_date)
              /\ fromisoformat(e.run_date) <= now
              /\ \A t \in timers : t.jid # e.jid )
            => /\ get_scheduled_job(jobs_metadata', int(e.key)) = e
               /\ \A t \in timers' : t.id # e.key]_vars

\* After recovery a missed job is found under its lead id and holds no timer.
C6_Witness ==
    /\ running
    /\ crashes = 0
    /\ \E e \in Entries(jobs_metadata) :
          /\ e.jid \in missed
          /\ get_scheduled_job(jobs_metadata, int(e.key)) = e
          /\ TimersOf(timers, int(e.key)) = {}

\* C7: once the restarted application serves requests, every persisted job
\* whose run time is to come holds a timer with its subject, body and run time.
C7_FutureJobsHoldTimers ==
    handler # 0 =>
        \A e \in Entries(jobs_metadata) :
            (WellFormed(e) /\ fromisoformat(e.run_date) > now) =>
                Timer(int(e.key), e.subject, e.body, fromisoformat(e.run_date), e.jid)
                    \in timers

\* C8: recovery registers every well-formed coming job of the mapping,
\* whatever corrupt entries stand before or after it.
C8_CorruptEntriesSkipped ==
    [][StartStep =>
         \A e \in Entries(jobs_metadata) :
            (WellFormed(e) /\ fromisoformat(e.run_date) > now) =>
                Timer(int(e.key), e.subject, e.body, fromisoformat(e.run_date), e.jid)
                    \in timers']_vars

\* The step that follows a step of the outreach sequence.
StepAfter(step) ==
    CASE step = NOT_SENT -> INITIAL_SENT
      [] step = INITIAL_SENT -> GHOST_1_SENT
      [] step = GHOST_1_SENT -> GHOST_2_SENT

\* C9: a successful scheduled send moves a lead at not_sent, initial_sent or
\* ghost_1_sent to the next step, stamps email_sent_at, clears scheduled_at
\* and stores the subject and body that were sent.
C9_SuccessAdvancesOneStep ==
    [][\A x \in executing :
         (UpdateStep(x) /\ leads[x.lead_id].sequence_step
                              \in {NOT_SENT, INITIAL_SENT, GHOST_1_SENT}) =>
            /\ leads'[x.lead_id].sequence_step
                  = StepAfter(leads[x.lead_id].sequence_step)
            /\ leads'[x.lead_id].email_sent_at # NoTime
            /\ leads'[x.lead_id].scheduled_at = NoTime
            /\ leads'[x.lead_id].email_subject = x.subject
            /\ leads'[x.lead_id].email_draft = x.body]_vars

\* A lead has been written by a successful scheduled send that took it to
\* ghost_2_sent.
C9_Witness ==
    \E l \in Leads :
        /\ leads[l].email_sent_at # NoTime
        /\ leads[l].sequence_step = GHOST_2_SENT
        /\ leads[l].scheduled_at = NoTime

\* C10: a successful scheduled send leaves the step of a lead at ghost_2_sent
\* or replied as it is.
C10_LastStepsKept ==
    [][\A x \in executing :
         (UpdateStep(x) /\ leads[x.lead_id].sequence_step \in {GHOST_2_SENT, REPLIED}) =>
            leads'[x.lead_id].sequence_step = leads[x.lead_id].sequence_step]_vars

\* The step that ends the lookup-and-send part of the run x.
SendStep(x) ==
    /\ x \in executing
    /\ x.pc = "send"
    /\ x \notin executing'
    /\ crashes' = crashes

\* C11: when the send of a fired job fails, the lead keeps its step, its
\* scheduled_at and its email_sent_at, and no timer or entry is created: the
\* job is not tried again.
C11_FailedSendChangesNothing ==
    [][\A x \in executing :
         ( /\ SendStep(x)
           /\ dispatched'[x.jid] = dispatched[x.jid] + 1
           /\ \A y \in executing' : y.jid # x.jid )
         => /\ leads' = leads
            /\ timers' = timers
            /\ jobs_metadata' = jobs_metadata
            /\ disk' = disk]_vars

\* The send of a fired job has failed: the job went to the dispatch engine,
\* the lead is still marked as scheduled and never sent to, and nothing of
\* the job is left.
C11_Witness ==
    /\ crashes = 0
    /\ executing = {}
    /\ timers = {}
    /\ jobs_metadata = <<>>
    /\ \E j \in Jobs : dispatched[j] = 1
    /\ \E l \in Leads : /\ leads[l].scheduled_at # NoTime
                        /\ leads[l].email_sent_at = NoTime
                        /\ leads[l].email # ""

\* C12: a firing that finds no lead store, no lead of that id or an empty
\* address ends there: the dispatch engine is not invoked, the daily counter
\* and every lead stay as they are.
C12_AbortWithoutSend ==
    [][\A x \in executing :
         ( /\ SendStep(x)
           /\ \/ handler = 0
              \/ ~leads[x.lead_id].present
              \/ leads[x.lead_id].email = "" )
         => /\ dispatched' = dispatched
            /\ _daily_send_count' = _daily_send_count
            /\ _last_send_date' = _last_send_date
            /\ connections' = connections
            /\ transmitted' = transmitted
            /\ leads' = leads
            /\ \A y \in executing' : y.jid # x.jid]_vars

\* A job of a lead without an address has fired and ended without a send.
C12_Witness ==
    /\ jobCount = 1
    /\ crashes = 0
    /\ executing = {}
    /\ timers = {}
    /\ jobs_metadata = <<>>
    /\ dispatched[1] = 0
    /\ \E l \in Leads : leads[l].scheduled_at # NoTime /\ leads[l].email = ""

\* C13: whenever nothing executes, a lead's scheduled_at is set exactly when
\* a send job of that lead is pending.
C13_ScheduledAtIffPending ==
    executing = {} =>
        \A l \in Leads :
            leads[l].present =>
                (leads[l].scheduled_at # NoTime <=> TimersOf(timers, l) # {})

\* C14: cancel never fails; after it the lead holds no timer and no entry,
\* whether it held any before; a second cancel would change nothing; the
\* timers and entries of other leads stay.
C14_CancelIdempotent ==
    [][\A l \in Leads :
         cancel_schedule_endpoint(l) =>
            /\ TimersOf(timers', l) = {}
            /\ ~DictHas(jobs_metadata', str(l))
            /\ {t \in timers' : t.id # str(l)} = timers'
            /\ DictDel(jobs_metadata', str(l)) = jobs_metadata'
            /\ timers \ TimersOf(timers, l) = timers'
            /\ DictDel(jobs_metadata, str(l)) = jobs_metadata']_vars

\* A scheduled job was cancelled before the scheduler ever ran, while the
\* job of another lead stays.
C14_Witness ==
    /\ jobCount = 2
    /\ crashes = 0
    /\ ~running
    /\ Cardinality(timers) = 1
    /\ Len(jobs_metadata) = 1
    /\ \E l \in Leads : /\ leads[l].email_subject # None
                        /\ leads[l].scheduled_at = NoTime
                        /\ TimersOf(timers, l) = {}
                        /\ ~DictHas(jobs_metadata, str(l))

\* The persistence file after a step holds one entry of lead l with this
\* subject, body and run time, and a restart would load it and recovery
\* register its timer if the run time is still to come.
DurablyScheduled(l, subject, body, run_at) ==
    LET loaded == IF disk'.valid THEN disk'.entries ELSE <<>>
        idx == {i \in 1..Len(loaded) : loaded[i].key = str(l)}
    IN  /\ Cardinality(idx) = 1
        /\ \A i \in idx :
              /\ loaded[i].subject = subject
              /\ loaded[i].body = body
              /\ Parses(loaded[i].run_date)
              /\ fromisoformat(loaded[i].run_date) = run_at
              /\ run_at > now =>
                   Timer(l, subject, body, run_at, loaded[i].jid)
                       \in _restore_jobs(loaded, {})

C16_CapNeverExceeded ==
    /\ \A d \in 1..MaxDays : transmitted[d] <= DAILY_EMAIL_CAP
    /\ _daily_send_count <= DAILY_EMAIL_CAP

\* C17: a send call that finds the counter of its date at the cap ends at
\* once with the quota diagnostic: no connection is opened, no message is
\* transmitted and the counter keeps its value.
C17_AtCapNoNetwork ==
    [][\A i \in 1..Len(calls) :
         /\ ( /\ calls[i].pc = "queued"
              /\ calls'[i].pc # "queued"
              /\ _last_send_date = today
              /\ _daily_send_count >= DAILY_EMAIL_CAP )
            => calls'[i].pc = "reset"
         /\ ( /\ calls[i].pc = "reset"
              /\ calls'[i].pc # "reset"
              /\ _last_send_date = calls[i].day
              /\ _daily_send_count >= DAILY_EMAIL_CAP )
            => /\ calls'[i].pc = "done"
               /\ calls'[i].result = "Daily email cap reached (cap)"
               /\ connections' = connections
               /\ transmitted' = transmitted
               /\ _daily_send_count' = _daily_send_count]_vars

\* A send call was refused for the quota after exactly the cap's number of
\* messages went out that day.
C17_Witness ==
    /\ _daily_send_count = DAILY_EMAIL_CAP
    /\ _last_send_date = today
    /\ transmitted[today] = DAILY_EMAIL_CAP
    /\ connections = DAILY_EMAIL_CAP
    /\ \E i \in 1..Len(calls) : calls[i].result = "Daily email cap reached (cap)"

\* C18: a batch of N messages under a cap of K < N, begun with the counter at
\* zero and run within one date, every transport succeeding and nobody else
\* sending, returns K successes followed by N-K quota failures in input
\* order; only the K sent messages caused network traffic.
C18_BatchStopsAtCap ==
    ( /\ batch.pc = "returned"
      /\ batch.n > DAILY_EMAIL_CAP
      /\ batch.count = 0
      /\ batch.day = today
      /\ credentials
      /\ \A i \in 1..Len(calls) : /\ calls[i].caller = "batch"
                                  /\ calls[i].result # "SMTP error" )
    => /\ Len(batch.results) = batch.n
       /\ \A k \in 1..Len(batch.results) :
             /\ batch.results[k].success = (k <= DAILY_EMAIL_CAP)
             /\ k > DAILY_EMAIL_CAP =>
                  batch.results[k].message = "Daily email cap reached"
       /\ connections = DAILY_EMAIL_CAP
       /\ transmitted[today] = DAILY_EMAIL_CAP
       /\ Len(calls) = DAILY_EMAIL_CAP

\* A batch of more messages than the cap has returned, the cap's number of
\* them sent and the last one refused.
C18_Witness ==
    /\ batch.pc = "returned"
    /\ batch.n = MaxBatch
    /\ batch.count = 0
    /\ batch.day = today
    /\ Len(calls) = DAILY_EMAIL_CAP
    /\ \A i \in 1..Len(calls) : calls[i].result = "Email sent successfully"
    /\ ~batch.results[MaxBatch].success

\* C19: a returned batch has one result per input, the i-th being the outcome
\* for the i-th input: of its send call, or the quota answer given without a
\* call; for a verification, the result of the i-th address.
C19_ResultsInInputOrder ==
    /\ batch.pc = "returned" =>
         /\ Len(batch.results) = batch.n
         /\ \A k \in 1..Len(batch.results) :
               /\ batch.results[k].of = k
               /\ \/ \E i \in 1..Len(calls) :
                        /\ calls[i].caller = "batch"
                        /\ calls[i].msg = k
                        /\ calls[i].pc = "done"
                        /\ batch.results[k].message = calls[i].result
                        /\ batch.results[k].success
                             = (calls[i].result = "Email sent successfully")
                  \/ /\ \A i \in 1..Len(calls) : calls[i].msg # k
                     /\ ~batch.results[k].success
                     /\ batch.results[k].message = "Daily email cap reached"
    /\ vbatch.pc = "returned" =>
         /\ Len(vbatch.results) = Len(vbatch.emails)
         /\ \A k \in 1..Len(vbatch.results) :
               vbatch.results[k].email = vbatch.emails[k]

\* A batch with a sent message, a failed one and one refused for the quota
\* has returned, and so has a verification of a list that repeats an address
\* with different outcomes.
C19_Witness ==
    /\ batch.pc = "returned"
    /\ \E k \in 1..Len(batch.results) : batch.results[k].success
    /\ \E k \in 1..Len(batch.results) : batch.results[k].message = "SMTP error"
    /\ \E k \in 1..Len(batch.results) :
          batch.results[k].message = "Daily email cap reached"
    /\ vbatch.pc = "returned"
    /\ Len(vbatch.results) = MaxBatch
    /\ vbatch.emails[1] = vbatch.emails[MaxBatch]
    /\ vbatch.emails[1] # vbatch.emails[2]
    /\ vbatch.results[1].status # vbatch.results[MaxBatch].status

\* C20: the counter is set to zero, and its date to the new date, by the
\* first touch on a new date, and is never set back while its date is the
\* current date.
C20_ResetOnlyOnNewDate ==
    [][/\ _last_send_date' # _last_send_date => _daily_send_count' = 0
       /\ _daily_send_count' < _daily_send_count => _last_send_date # today]_vars

\* A call of verify in the given mode has returned.
Returned(strategy) == probe.pc = "done" /\ probe.in.strategy = strategy

\* What the k-th exchanger a connection was attempted to did.
Attempt(k) == probe.in.behaviour[probe.result.connected[k]]

Attempts == 1..Len(probe.result.connected)

\* The failures to connect: refused, disconnected, timed out, unresolvable.
ConnectionFailures == {"refused", "disconnected", "timeout", "gaierror"}

\* C21: in smtp-only mode, when the connection to every exchanger that was
\* attempted failed (refused, disconnected, timed out or unresolvable),
\* verify returns unknown, never invalid.
C21_ConnectionFailuresAreUnknown ==
    (/\ Returned("smtp")
     /\ Attempts # {}
     /\ \A k \in Attempts :
            Attempt(k).kind = "error" /\ Attempt(k).error \in ConnectionFailures)
        => probe.result.status = UNKNOWN

\* Two exchangers were tried, one refused the connection and the other
\* timed out, and the result is unknown.
C21_Witness ==
    /\ Returned("smtp")
    /\ Len(probe.result.connected) = 2
    /\ Attempt(1).kind = "error" /\ Attempt(1).error = "refused"
    /\ Attempt(2).kind = "error" /\ Attempt(2).error = "timeout"
    /\ probe.result.status = UNKNOWN

\* C22: in smtp-only mode, for an address whose domain has no MX records
\* (the domain does not exist, or the lookup has no answer), verify returns
\* invalid and no SMTP connection is opened.
C22_NoMxIsInvalid ==
    (Returned("smtp") /\ probe.in.mx.error \in {"NXDOMAIN", "NoAnswer"})
        => probe.result.status = INVALID /\ probe.result.connected = <<>>

\* The address passed validate_email, the lookup had no answer, and the
\* result is invalid without a connection.
C22_Witness ==
    /\ Returned("smtp")
    /\ probe.in.validate = "ok"
    /\ probe.in.mx.error = "NoAnswer"
    /\ probe.result.status = INVALID
    /\ probe.result.connected = <<>>

\* C23: a transient network error is never escalated to a definitive
\* negative result: when the MX lookup times out or no nameserver answers,
\* or the SMTP step on every attempted exchanger times out, verify (in
\* smtp-only mode, on an address validate_email did not reject) returns
\* unknown, not invalid.
C23_TransientIsUnknown ==
    (/\ Returned("smtp")
     /\ probe.in.validate \in {"ok", "Exception"}
     /\ \/ probe.in.mx.error \in {"Timeout", "NoNameservers"}
        \/ /\ Attempts # {}
           /\ \A k \in Attempts : Attempt(k).kind = "error" /\ Attempt(k).error = "timeout")
        => probe.result.status = UNKNOWN

\* C24: in smtp-only mode the response code c of the recipient probe of an
\* exchanger that accepted the connection and the sender handshake decides:
\* 250 gives valid, 550..554 invalid, 400 <= c < 500 unknown, and in each
\* of these cases no further exchanger is contacted.
C24_ResponseCodeDecides ==
    Returned("smtp") =>
        \A k \in Attempts :
            LET c == Attempt(k).code IN
            (Attempt(k).kind = "rcpt" /\ (c = 250 \/ c \in 550..554 \/ (400 <= c /\ c < 500)))
                => /\ k = Len(probe.result.connected)
                   /\ c = 250 => probe.result.status = VALID
                   /\ c \in 550..554 => probe.result.status = INVALID
                   /\ (400 <= c /\ c < 500) => probe.result.status = UNKNOWN

\* The domain has two exchangers or more, the first answered the recipient
\* probe with 450, and the result is unknown with the first contacted only.
C24_Witness ==
    /\ Returned("smtp")
    /\ Len(probe.in.mx.records) >= 2
    /\ probe.result.connected = <<"mx1">>
    /\ Attempt(1).kind = "rcpt" /\ Attempt(1).code = 450
    /\ probe.result.status = UNKNOWN

\* The enabled providers in priority order: Trumail, Hunter.io, Kickbox,
\* AbstractAPI.
Priority == <<"Trumail", "Hunter.io", "Kickbox", "AbstractAPI">>

Configured == SelectSeq(Priority, LAMBDA q : q \in probe.in.enabled)

Definitive == {k \in 1..Len(Configured) : probe.in.answer[Configured[k]] \in {VALID, INVALID}}

\* C25: in api-only mode the providers are tried in fixed priority order;
\* the result is that of the first provider returning valid or invalid and
\* no later provider is called; when none is definitive every provider was
\* called (one that raises is skipped) and the result is catch_all when
\* any provider returned catch_all, otherwise unknown.
C25_FirstDefinitiveProviderWins ==
    Returned("api") =>
        IF Definitive # {}
        THEN LET first == CHOOSE k \in Definitive : \A j \in Definitive : k <= j IN
             /\ probe.result.status = probe.in.answer[Configured[first]]
             /\ probe.result.called = SubSeq(Configured, 1, first)
        ELSE /\ probe.result.called = Configured
             /\ probe.result.status =
                    IF \E k \in 1..Len(Configured) : probe.in.answer[Configured[k]] = CATCH_ALL
                    THEN CATCH_ALL ELSE UNKNOWN

\* All four providers are enabled: the first raises, the second answers
\* catch_all, the third invalid, the fourth valid; the result is invalid
\* and the fourth was not called.
C25_Witness ==
    /\ Returned("api")
    /\ Len(Configured) = 4
    /\ probe.in.answer["Trumail"] = "raise"
    /\ probe.in.answer["Hunter.io"] = CATCH_ALL
    /\ probe.in.answer["Kickbox"] = INVALID
    /\ probe.in.answer["AbstractAPI"] = VALID
    /\ probe.result.status = INVALID
    /\ probe.result.called = <<"Trumail", "Hunter.io", "Kickbox">>

\* C26: in smart mode, when the SMTP result is valid and every probe of a
\* random local part of the domain is accepted, the final result is
\* catch_all instead of valid.
C26_CatchAllDowngrade ==
    (/\ Returned("smart")
     /\ verify_email(probe.in).status = VALID
     /\ probe.in.sample = VALID)
        => probe.result.status = CATCH_ALL

\* C27: in smart mode, when smtp-only returns unknown with a blocking or
\* timeout diagnostic (every attempted exchanger unreachable included), the
\* api-only fallback is run and its result is returned iff its status is
\* not unknown, otherwise the SMTP unknown result; when smtp-only returns
\* invalid, that result is final and no provider is called.
C27_FallbackOnBlocking ==
    Returned("smart") =>
        LET smtp_result == verify_email(probe.in)
            api_result == _verify_with_apis(probe.in)
            unreachable ==
                /\ smtp_result.connected # <<>>
                /\ \A k \in 1..Len(smtp_result.connected) :
                       LET b == probe.in.behaviour[smtp_result.connected[k]] IN
                       b.kind = "error" /\ b.error \in ConnectionFailures
        IN  /\ (smtp_result.status = UNKNOWN /\ (Blocked(smtp_result.message) \/ unreachable))
                => /\ probe.result.called = api_result.called
                   /\ IF api_result.status # UNKNOWN
                      THEN /\ probe.result.status = api_result.status
                           /\ probe.result.message = api_result.message
                      ELSE /\ probe.result.status = UNKNOWN
                           /\ probe.result.message = smtp_result.message
            /\ smtp_result.status = INVALID
                => /\ probe.result.status = INVALID
                   /\ probe.result.called = <<>>

\* C28: batch verification verifies each distinct address of the batch
\* exactly once, reuses that result for every repeat of the address, and
\* sleeps the pacing delay only after the verification of a distinct
\* address, never for a repeat.
C28_DistinctVerifiedOnce ==
    vbatch.pc = "returned" =>
        /\ \A e \in {vbatch.emails[k] : k \in 1..Len(vbatch.emails)} :
               Cardinality({k \in 1..Len(vbatch.verified) : vbatch.verified[k] = e}) = 1
        /\ \A j, k \in 1..Len(vbatch.results) :
               vbatch.emails[j] = vbatch.emails[k]
                   => vbatch.results[j].status = vbatch.results[k].status
        /\ \A d \in 1..Len(vbatch.delays) :
               \A j \in 1..(vbatch.delays[d] - 1) :
                   vbatch.emails[j] # vbatch.emails[vbatch.delays[d]]

\* The fields of a lead a verification does not write.
OtherThanVerification ==
    {"present", "email", "sequence_step", "email_subject", "email_draft",
     "email_sent_at", "scheduled_at"}

\* C29: a step of a verification run does not invoke the dispatch engine,
\* leaves the daily send counter as it is, and on the lead records changes
\* nothing but the verification status and its check time.
C29_VerificationWritesStatusOnly ==
    [][vrun' # vrun =>
         /\ dispatched' = dispatched
         /\ calls' = calls
         /\ transmitted' = transmitted
         /\ connections' = connections
         /\ _daily_send_count' = _daily_send_count
         /\ _last_send_date' = _last_send_date
         /\ \A l \in Leads : \A f \in OtherThanVerification :
                leads'[l][f] = leads[l][f]]_vars

\* The lead l after update(l, fields): the supplied fields are as supplied,
\* every other field and every other lead is as before; no lead l: nothing
\* has changed.
Merged(l, fields) ==
    /\ \A m \in Leads \ {l} : leads'[m] = leads[m]
    /\ IF leads[l].present
       THEN \A f \in DOMAIN leads[l] :
               leads'[l][f] = IF f \in DOMAIN fields THEN fields[f] ELSE leads[l][f]
       ELSE leads'[l] = leads[l]

\* C30: update(id, fields) changes exactly the supplied fields of the lead
\* with that id, every other field of it and every other lead is unchanged;
\* for an id that is not in the store it answers not-found and changes
\* nothing.  Stated for the callers of the request thread: the edit of a
\* lead, the schedule and the cancel request.
C30_UpdateMergesSuppliedFields ==
    [][/\ \A l \in Leads, update \in LeadUpdate :
            (update_lead_endpoint(l, update) /\ handler # 0) =>
                /\ Merged(l, update_dict(update))
                /\ (~leads[l].present /\ DOMAIN update_dict(update) # {})
                       => response' = "404 Lead not found"
                /\ (leads[l].present /\ DOMAIN update_dict(update) # {})
                       => response' = "200"
       /\ \A l \in Leads, t \in Times :
            schedule_email_endpoint(l, "s1", "b1", t) =>
                Merged(l, [scheduled_at |-> t, email_subject |-> "s1", email_draft |-> "b1"])
       /\ \A l \in Leads :
            cancel_schedule_endpoint(l) => Merged(l, [scheduled_at |-> NoTime])]_vars

\* A lead scheduled with subject and draft was edited with a new subject
\* only: the draft, the schedule, the address and the step are kept.
C30_Witness ==
    /\ response = "200"
    /\ \E l \in Leads :
          /\ leads[l].email_subject = "s2"
          /\ leads[l].email_draft = "b1"
          /\ leads[l].scheduled_at # NoTime
          /\ leads[l].email = Address
          /\ leads[l].sequence_step = GHOST_1_SENT

\* The exchange of the answer with exactly n more preferred exchanges.
Preferred(n) ==
    CHOOSE h \in Hosts :
        \E i \in 1..Len(probe.in.mx.records) :
            /\ probe.in.mx.records[i].exchange = h
            /\ Cardinality({j \in 1..Len(probe.in.mx.records) :
                              probe.in.mx.records[j].preference
                                  < probe.in.mx.records[i].preference}) = n

\* The exchanger gave a decisive answer to the recipient probe.
Decisive(b) ==
    /\ b.kind = "rcpt"
    /\ b.code = 250 \/ b.code \in 550..554 \/ (400 <= b.code /\ b.code < 500)

\* C38: smtp-only verification opens connections to at most the two most
\* preferred exchangers, in preference order, and contacts the second only
\* when the first gave no decisive answer (and then, if there is one, it
\* does contact it).
C38_TopTwoInPreferenceOrder ==
    Returned("smtp") =>
        LET connected == probe.result.connected
            n == Len(probe.in.mx.records)
        IN  /\ Len(connected) <= 2
            /\ Len(connected) >= 1 => connected[1] = Preferred(0)
            /\ Len(connected) = 2 =>
                   /\ connected[2] = Preferred(1)
                   /\ ~Decisive(probe.in.behaviour[connected[1]])
            /\ (probe.in.validate \in {"ok", "Exception"} /\ n >= 1) =>
                   /\ Len(connected) >= 1
                   /\ (n >= 2 /\ ~Decisive(probe.in.behaviour[connected[1]]))
                          => Len(connected) = 2

\* The answer lists three exchangers from the least preferred on; the most
\* preferred refused the sender handshake, the second was contacted and
\* rejected the address, the third was left alone.
C38_Witness ==
    /\ Returned("smtp")
    /\ probe.in.mx.records = <<MX(30, "mx3"), MX(20, "mx2"), MX(10, "mx1")>>
    /\ probe.in.behaviour["mx1"].kind = "mail"
    /\ probe.in.behaviour["mx2"].kind = "rcpt" /\ probe.in.behaviour["mx2"].code = 550
    /\ probe.result.connected = <<"mx1", "mx2">>
    /\ probe.result.status = INVALID

C33_FiringKeepsReplacement ==
    [][\A x \in executing :
         (/\ x.pc = "remove"
          /\ crashes' = crashes
          /\ [x EXCEPT !.pc = "send"] \in executing') =>
            \A e \in Entries(jobs_metadata) :
                e.jid # x.jid => e \in Entries(jobs_metadata')]_vars

\* C32: under any interleaving of schedule, cancel and the runs of fired
\* jobs in the request thread and the scheduler's threads, once every
\* operation has completed the mapping in the file equals the mapping in
\* memory: no entry is lost, resurrected or left stale.
C32_FileEqualsMemoryAtRest ==
    (writers = {} /\ executing = {}) => _load_jobs_metadata = jobs_metadata

\* The immediate send of y writes the lead in this step.
ImmediateWrites(y) ==
    y.pc = "update" /\ y.handler = handler /\ immediate' = immediate \ {y}

\* The scheduled send of x writes the lead in this step.
ScheduledWrites(x) ==
    x.pc = "update" /\ x.handler = handler /\ executing' = executing \ {x}

\* C36: for every starting sequence step a successful immediate send and a
\* successful scheduled fire leave the lead with the same step: each path
\* writes the step the rule of the other path gives; both set email_sent_at
\* and store the message sent as subject and draft.
C36_SamePathsSameStep ==
    [][/\ \A y \in immediate : ImmediateWrites(y) =>
            /\ leads'[y.lead_id].sequence_step = NewStep(y.step)
            /\ leads'[y.lead_id].email_sent_at # NoTime
            /\ leads'[y.lead_id].email_subject = y.subject
            /\ leads'[y.lead_id].email_draft = y.body
       /\ \A x \in executing : ScheduledWrites(x) =>
            /\ leads'[x.lead_id].sequence_step = new_step(x.step)
            /\ leads'[x.lead_id].email_sent_at # NoTime
            /\ leads'[x.lead_id].email_subject = x.subject
            /\ leads'[x.lead_id].email_draft = x.body]_vars

\* Both leads started from the first follow-up step; the first was sent
\* immediately, the second by its timer, and both are at the second.
C36_Witness ==
    /\ handler # 0
    /\ immediate = {} /\ executing = {} /\ timers = {}
    /\ transmitted[today] = 2
    /\ leads[First].sequence_step = GHOST_2_SENT
    /\ leads[Second].sequence_step = GHOST_2_SENT
    /\ leads[First].email_sent_at # NoTime
    /\ leads[Second].email_sent_at # NoTime
    /\ leads[First].email_draft = "b2"
    /\ leads[Second].email_draft = "b1"

\* The bulk verification runs that were accepted and have not ended.
ActiveRuns == {k \in Runs : vrun[k].pc \notin {"idle", "finished"}}

\* C37: at most one bulk verification run is active at any time: a verify
\* request that arrives while another run is in progress, be it between the
\* acceptance of the first request and the start of its background task, is
\* rejected and starts no second run.
C37_OneRunAtATime == Cardinality(ActiveRuns) <= 1

\* The job of lead l is over: no timer, no persisted entry, no run of it.
Settled(l) ==
    /\ \A t \in timers : t.lead_id # l
    /\ ~DictHas(jobs_metadata, str(l))
    /\ ~DictHas(_load_jobs_metadata, str(l))
    /\ ~Busy(str(l))

\* C35: once schedule has returned for a lead, the job being neither
\* cancelled nor replaced and the process running on, the timer of the lead
\* eventually fires, after which no timer and no persisted entry of the
\* lead exists.
C35_ScheduledEventuallyFires ==
    \A l \in Leads : (\E t \in timers : t.lead_id = l) ~> Settled(l)

\* Every send call has returned.
AllReturned == \A i \in 1..Len(calls) : calls[i].pc = "done"

\* C34: after any interleaving of send calls within one calendar date the
\* daily counter equals the number of sends that succeeded on that date:
\* every success adds exactly one and no failed send changes it.
C34_CounterEqualsSuccesses ==
    AllReturned => _daily_send_count = transmitted[today]

====
